---- MODULE Spec2Model ----
(***************************************************************************)
(* Model of the sandscape GRBL protocol driver (src/src/grbl.py), the      *)
(* motion/limit state it keeps (src/src/state.py), the line transport      *)
(* (src/src/utils.py) and the orchestration calls that drive it            *)
(* (src/src/main.py).                                                      *)
(*                                                                         *)
(* Lengths are whole millimetres and angles whole degrees; Python's None   *)
(* is the empty tuple and a set value v is <<v>>.                          *)
(***************************************************************************)
EXTENDS Integers, Sequences, FiniteSets, TLC

\* ------------------------------------------------------------------ bounds
\* Most lines the reader thread may hold in the FIFO at once.
MaxQueue == 1
\* Lines the device emits in one behaviour.
MaxLines == 3

\* ------------------------------------------------------- program constants
R_MIN == 0
R_MAX == 273
HALF_TURN == 180
FULL_TURN == 360
HOMING_BACKOFF == 30
HOMING_SPEED == 3000
PLANNER_EMPTY == 15

\* ------------------------------------------------------------ Optional[T]
None == << >>
Some(v) == <<v>>
Val(o) == o[1]

\* ------------------------------------------------------------------- Move
Move(r, t, s, t_grbl) ==
    [r |-> r, t |-> t, s |-> s, t_grbl |-> t_grbl, received |-> FALSE]

is_empty(m) == m.r = None /\ m.t = None /\ m.s = None

\* f"G1 X{r:.2f} Z{t_grbl:.2f} F{s:.2f}\n": the bytes carry r, t_grbl and s;
\* formatting None with :.2f raises TypeError.
format_move_raises(m) == m.r = None \/ m.t_grbl = None \/ m.s = None

format_move(m) == <<"G1", Val(m.r), Val(m.t_grbl), Val(m.s)>>

\* ---------------------------------------------------------- GrblSendMsg
EMPTY_BYTES == <<"">>

GrblCmd(name) == <<name>>

\* response: the text of the last line handled while the message was
\* staged, as the set of substrings it contains ('' at first).
GrblSendMsg(msg_type, msg) ==
    [msg_type |-> msg_type, msg |-> msg, sent |-> FALSE, response |-> {},
     received |-> FALSE]

EmptyMsg == GrblSendMsg("EMPTY", EMPTY_BYTES)

CmdMsg(name) == GrblSendMsg("CMD", GrblCmd(name))

\* ------------------------------------------------------- device lines
\* A decoded line is known by the substrings the classifier looks for
\* (has), the status fields a report carries (report) and the key/value of
\* a settings line (setting).
Report(st, r, t, bf, pn) ==
    [State |-> st, MPos |-> <<r, t>>, PlannerBuffer |-> bf, Pn |-> pn]

NoReport == Report("", 0, 0, 0, {})

Line(has, report, setting) ==
    [has |-> has, report |-> report, setting |-> setting, shape |-> "text"]

StatusLines ==
    { Line({"<", ">"}, Report("Idle", 100, 0, PLANNER_EMPTY, {}), None),
      Line({"<", ">"}, Report("Alarm", 0, 720, PLANNER_EMPTY, {"X"}), None),
      Line({"<", ">"}, Report("Run", 273, 0, 0, {"Y"}), None) }

OkLine == Line({"ok"}, NoReport, None)
AlarmLine == Line({"ALARM"}, NoReport, None)
ErrorLine == Line({"error"}, NoReport, None)
StartupLine == Line({"Grbl 1.1h ['$' for help]"}, NoReport, None)
CheckLimitsLine == Line({"[MSG:Check Limits]"}, NoReport, None)
NeedUnlockLine == Line({"[MSG:'$H'|'$X' to unlock]"}, NoReport, None)
UnlockedLine == Line({"[MSG:Caution: Unlocked]"}, NoReport, None)
SettingLine == Line({"=", "$"}, NoReport, Some(<<0, 10>>))
OtherLine == Line({}, NoReport, None)

DeviceLines ==
    StatusLines \cup
    { OkLine, AlarmLine, ErrorLine, StartupLine, CheckLimitsLine,
      NeedUnlockLine, UnlockedLine, SettingLine, OtherLine }

\* The substrings the classifier and the settings handler look for.
Markers ==
    {"<", ">", "ok", "ALARM", "error", "Grbl 1.1h ['$' for help]",
     "[MSG:Check Limits]", "[MSG:'$H'|'$X' to unlock]",
     "[MSG:Caution: Unlocked]", "=", "$"}

\* Any text, by the markers it contains: the banner and the unlock notice
\* contain a '$' themselves.
AnyLines ==
    { Line(h,
           IF "<" \in h /\ ">" \in h
           THEN Report("Idle", 100, 0, PLANNER_EMPTY, {}) ELSE NoReport,
           IF "=" \in h /\ "$" \in h THEN Some(<<0, 10>>) ELSE None) :
      h \in { x \in SUBSET Markers :
                 ("Grbl 1.1h ['$' for help]" \in x
                    \/ "[MSG:'$H'|'$X' to unlock]" \in x) => "$" \in x } }

\* ------------------------------------------------- response classifier
\* A classifier that looks for ALARM before it looks for ok.
grbl_resp_msg_txt_to_obj_alarm_first(line) ==
    IF "<" \in line.has /\ ">" \in line.has THEN "RESP_STATUS"
    ELSE IF "ALARM" \in line.has THEN "RESP_ALARM"
    ELSE IF "ok" \in line.has THEN "RESP_OK"
    ELSE IF "error" \in line.has THEN "RESP_ERROR"
    ELSE IF "Grbl 1.1h ['$' for help]" \in line.has THEN "RESP_STARTUP"
    ELSE IF "[MSG:Check Limits]" \in line.has THEN "RESP_CHECKLIMITS"
    ELSE IF "[MSG:'$H'|'$X' to unlock]" \in line.has THEN "RESP_NEEDUNLOCK"
    ELSE IF "[MSG:Caution: Unlocked]" \in line.has THEN "RESP_UNLOCKED"
    ELSE IF "=" \in line.has THEN "RESP_SETTING"
    ELSE "RESP_OTHER"

\* A classifier that takes one bracket sign for a status report.
grbl_resp_msg_txt_to_obj_one_bracket(line) ==
    IF "<" \in line.has \/ ">" \in line.has THEN "RESP_STATUS"
    ELSE IF "ok" \in line.has THEN "RESP_OK"
    ELSE IF "ALARM" \in line.has THEN "RESP_ALARM"
    ELSE IF "error" \in line.has THEN "RESP_ERROR"
    ELSE IF "Grbl 1.1h ['$' for help]" \in line.has THEN "RESP_STARTUP"
    ELSE IF "[MSG:Check Limits]" \in line.has THEN "RESP_CHECKLIMITS"
    ELSE IF "[MSG:'$H'|'$X' to unlock]" \in line.has THEN "RESP_NEEDUNLOCK"
    ELSE IF "[MSG:Caution: Unlocked]" \in line.has THEN "RESP_UNLOCKED"
    ELSE IF "=" \in line.has THEN "RESP_SETTING"
    ELSE "RESP_OTHER"

grbl_resp_msg_txt_to_obj(line) ==
    IF "<" \in line.has /\ ">" \in line.has THEN "RESP_STATUS"
    ELSE IF "ok" \in line.has THEN "RESP_OK"
    ELSE IF "ALARM" \in line.has THEN "RESP_ALARM"
    ELSE IF "error" \in line.has THEN "RESP_ERROR"
    ELSE IF "Grbl 1.1h ['$' for help]" \in line.has THEN "RESP_STARTUP"
    ELSE IF "[MSG:Check Limits]" \in line.has THEN "RESP_CHECKLIMITS"
    ELSE IF "[MSG:'$H'|'$X' to unlock]" \in line.has THEN "RESP_NEEDUNLOCK"
    ELSE IF "[MSG:Caution: Unlocked]" \in line.has THEN "RESP_UNLOCKED"
    ELSE IF "=" \in line.has THEN "RESP_SETTING"
    ELSE "RESP_OTHER"

\* The status-report parser, by the report grammar of the interface.
parse_grbl_status(line) == line.report

\* ------------------------------------------------------------ MotionState
LimitsHit(smin, smax, hmin, hmax) ==
    [soft_r_min |-> smin, soft_r_max |-> smax,
     hard_r_min |-> hmin, hard_r_max |-> hmax]

Grbl(status, r, t, bf, pnX, pnY) ==
    [status |-> status, mpos_r |-> r, mpos_t |-> t,
     planner_buffer |-> bf, pnX |-> pnX, pnY |-> pnY]

\* round(None, 3) raises TypeError; on whole millimetres and degrees
\* round(x, 3) leaves x as it is.
check_move_raises(move) == move.r = None \/ move.t = None

\* A check whose hard-limit tests look the other way.
check_move_hard_reversed(limits_hit, grbl, need_homing, move) ==
    LET r == Val(move.r) IN
    IF limits_hit.hard_r_min /\ r > grbl.mpos_r THEN FALSE
    ELSE IF limits_hit.hard_r_max /\ r < grbl.mpos_r THEN FALSE
    ELSE IF ~need_homing /\ r # grbl.mpos_r
              /\ \/ limits_hit.soft_r_min /\ r < grbl.mpos_r
                 \/ limits_hit.soft_r_max /\ r > grbl.mpos_r
                 \/ r > R_MAX \/ r < R_MIN
         THEN FALSE
    ELSE IF move.t = None /\ move.t_grbl = None THEN FALSE
    ELSE TRUE

\* A check that knows the rim but not the centre as a travel bound.
check_move_no_lower_bound(limits_hit, grbl, need_homing, move) ==
    LET r == Val(move.r) IN
    IF limits_hit.hard_r_min /\ r < grbl.mpos_r THEN FALSE
    ELSE IF limits_hit.hard_r_max /\ r > grbl.mpos_r THEN FALSE
    ELSE IF ~need_homing /\ r # grbl.mpos_r
              /\ \/ limits_hit.soft_r_min /\ r < grbl.mpos_r
                 \/ limits_hit.soft_r_max /\ r > grbl.mpos_r
                 \/ r > R_MAX
         THEN FALSE
    ELSE IF move.t = None /\ move.t_grbl = None THEN FALSE
    ELSE TRUE

\* A check that does not look at the outer limit switch.
check_move_ignores_hard_max(limits_hit, grbl, need_homing, move) ==
    LET r == Val(move.r) IN
    IF limits_hit.hard_r_min /\ r < grbl.mpos_r THEN FALSE
    ELSE IF ~need_homing /\ r # grbl.mpos_r
              /\ \/ limits_hit.soft_r_min /\ r < grbl.mpos_r
                 \/ limits_hit.soft_r_max /\ r > grbl.mpos_r
                 \/ r > R_MAX \/ r < R_MIN
         THEN FALSE
    ELSE IF move.t = None /\ move.t_grbl = None THEN FALSE
    ELSE TRUE

\* A check that does not know the travel bounds.
check_move_no_bounds(limits_hit, grbl, need_homing, move) ==
    LET r == Val(move.r) IN
    IF limits_hit.hard_r_min /\ r < grbl.mpos_r THEN FALSE
    ELSE IF limits_hit.hard_r_max /\ r > grbl.mpos_r THEN FALSE
    ELSE IF ~need_homing /\ r # grbl.mpos_r
              /\ \/ limits_hit.soft_r_min /\ r < grbl.mpos_r
                 \/ limits_hit.soft_r_max /\ r > grbl.mpos_r
         THEN FALSE
    ELSE IF move.t = None /\ move.t_grbl = None THEN FALSE
    ELSE TRUE

check_move(limits_hit, grbl, need_homing, move) ==
    LET r == Val(move.r) IN
    IF limits_hit.hard_r_min /\ r < grbl.mpos_r THEN FALSE
    ELSE IF limits_hit.hard_r_max /\ r > grbl.mpos_r THEN FALSE
    ELSE IF ~need_homing /\ r # grbl.mpos_r
              /\ \/ limits_hit.soft_r_min /\ r < grbl.mpos_r
                 \/ limits_hit.soft_r_max /\ r > grbl.mpos_r
                 \/ r > R_MAX \/ r < R_MIN
         THEN FALSE
    ELSE IF move.t = None /\ move.t_grbl = None THEN FALSE
    ELSE TRUE

\* ------------------------------------------------------- angle continuity
set_t_grbl_raises(prev, next) ==
    prev.t_grbl # None /\ next.t # None /\ prev.t = None

wrap_delta(delta) ==
    IF delta > HALF_TURN THEN delta - FULL_TURN
    ELSE IF delta < -HALF_TURN THEN delta + FULL_TURN
    ELSE delta

set_t_grbl(prev, next) ==
    IF prev.t_grbl # None /\ next.t # None
    THEN [next EXCEPT
            !.t_grbl = Some(Val(prev.t_grbl) + wrap_delta(Val(next.t) - Val(prev.t)))]
    ELSE next

\* ---------------------------------------------------- driver working set
\* d bundles what one call of the driver reads and writes: gc (the
\* GrblCommunicator's own fields), state (the shared State object), cfg (the
\* homing switches of the local constants), exc (an exception is
\* propagating) and rejected (check_move refused the pending move).
Raise(d) == [d EXCEPT !.exc = TRUE]

\* update_state_from_grbl_msg: the report's feed rate and RX buffer are
\* copied and never read by the driver; they are left out.
\* A status update whose lower soft limit trips only below R_MIN.
update_state_strict_min(d, line) ==
    LET status_dict == parse_grbl_status(line)
        pnX == "X" \in status_dict.Pn
        pnY == "Y" \in status_dict.Pn
        r == status_dict.MPos[1]
    IN [d EXCEPT
          !.state.grbl = Grbl(status_dict.State, r, status_dict.MPos[2],
                              status_dict.PlannerBuffer, pnX, pnY),
          !.state.limits_hit = LimitsHit(r < R_MIN, r >= R_MAX, pnX, pnY)]

\* update_state_from_grbl_msg: the report's fields are copied and the four
\* limit flags recomputed (a report without Pn has both pins clear).
update_state_from_grbl_msg(d, line) ==
    LET status_dict == parse_grbl_status(line)
        pnX == "X" \in status_dict.Pn
        pnY == "Y" \in status_dict.Pn
        r == status_dict.MPos[1]
    IN [d EXCEPT
          !.state.grbl = Grbl(status_dict.State, r, status_dict.MPos[2],
                              status_dict.PlannerBuffer, pnX, pnY),
          !.state.limits_hit = LimitsHit(r <= R_MIN, r >= R_MAX, pnX, pnY)]

\* An Ack test that does not take "ok" as the answer to Unlock.
isgood_no_unlock(msg_type, m) ==
    \/ msg_type = "RESP_SETTING"
    \/ msg_type = "RESP_STATUS" /\ m.msg = GrblCmd("STATUS")
    \/ /\ msg_type = "RESP_OK"
       /\ \/ m.msg \in {GrblCmd("PING"), GrblCmd("HOME"), GrblCmd("HOLD"),
                        GrblCmd("RESUME")}
          \/ m.msg_type \in {"MOVE", "SETTING", "EMPTY"}

\* The value of isgood at the end of the branches of handle_grbl_response.
isgood(msg_type, m) ==
    \/ msg_type = "RESP_SETTING"
    \/ msg_type = "RESP_STATUS" /\ m.msg = GrblCmd("STATUS")
    \/ /\ msg_type = "RESP_OK"
       /\ \/ m.msg \in {GrblCmd("PING"), GrblCmd("HOME"), GrblCmd("HOLD"),
                        GrblCmd("RESUME"), GrblCmd("UNLOCK")}
          \/ m.msg_type \in {"MOVE", "SETTING", "EMPTY"}

\* An Alarm branch that also takes the carriage to be back at the centre.
on_alarm_zeroes_pos(d) ==
    [d EXCEPT !.state.grbl.status = "Alarm",
              !.state.grbl.mpos_r = 0,
              !.gc.need_reset = TRUE,
              !.gc.need_unlock = TRUE,
              !.gc.need_status = TRUE]

\* An Alarm branch that leaves the device status as it was.
on_alarm_keeps_status(d) ==
    [d EXCEPT !.gc.need_reset = TRUE,
              !.gc.need_unlock = TRUE,
              !.gc.need_status = TRUE]

\* The RESP_ALARM branch of handle_grbl_response.
on_alarm(d) ==
    [d EXCEPT !.state.grbl.status = "Alarm",
              !.gc.need_reset = TRUE,
              !.gc.need_unlock = TRUE,
              !.gc.need_status = TRUE]

\* An Error branch that gives up with an exception.
on_error_raises(d) ==
    Raise([d EXCEPT !.gc.need_reset = TRUE,
                    !.gc.need_unlock = TRUE,
                    !.gc.need_status = TRUE])

\* The RESP_ERROR branch of handle_grbl_response; it clears the
\* communicator's own run_control_loop attribute, not the State flag.
on_error(d) ==
    [d EXCEPT !.gc.need_reset = TRUE,
              !.gc.need_unlock = TRUE,
              !.gc.need_status = TRUE,
              !.gc.run_control_loop = FALSE]

\* A RESP_SETTING branch that expects no trailing message.
on_setting_no_wait(d, line) ==
    [d EXCEPT
       !.gc.curr_grbl_settings =
           {kv \in @ : kv[1] # Val(line.setting)[1]} \cup {Val(line.setting)},
       !.gc.need_get_settings = FALSE]

\* The RESP_SETTING branch of handle_grbl_response, for a line that
\* parses: curr_grbl_settings[key] = value.
on_setting(d, line) ==
    [d EXCEPT
       !.gc.curr_grbl_settings =
           {kv \in @ : kv[1] # Val(line.setting)[1]} \cup {Val(line.setting)},
       !.gc.need_get_settings = FALSE,
       !.gc.expecting_extra_msg = TRUE]

\* The branch of handle_grbl_response chosen by the response type.
resp_effects(d, msg_type, line) ==
    LET m == d.gc.next_grbl_msg IN
    CASE msg_type = "RESP_SETTING" ->
           IF line.setting = None \/ ~("$" \in line.has) THEN Raise(d)
           ELSE on_setting(d, line)
      [] msg_type = "RESP_STATUS" ->
           IF m.msg = GrblCmd("STATUS")
           THEN update_state_from_grbl_msg([d EXCEPT !.gc.need_status = FALSE], line)
           ELSE d
      [] msg_type = "RESP_OK" ->
           [d EXCEPT
              !.state.flags.need_homing =
                  IF m.msg = GrblCmd("HOME") THEN FALSE ELSE @,
              !.gc.expecting_extra_msg = FALSE]
      [] msg_type = "RESP_ALARM" -> on_alarm(d)
      [] msg_type = "RESP_ERROR" -> on_error(d)
      [] msg_type = "RESP_STARTUP" ->
           [d EXCEPT !.gc.need_reset = FALSE,
                     !.gc.need_unlock = TRUE,
                     !.gc.need_status = TRUE]
      [] msg_type \in {"RESP_CHECKLIMITS", "RESP_NEEDUNLOCK"} ->
           [d EXCEPT !.gc.need_unlock = TRUE,
                     !.gc.need_status = TRUE]
      [] msg_type = "RESP_UNLOCKED" ->
           [d EXCEPT !.gc.need_unlock = FALSE,
                     !.gc.need_status = TRUE,
                     !.gc.expecting_extra_msg = TRUE]
      [] msg_type = "RESP_OTHER" ->
           [d EXCEPT !.gc.need_status = TRUE]
      [] OTHER ->
           [d EXCEPT !.gc.need_reset = TRUE,
                     !.gc.need_unlock = TRUE,
                     !.gc.need_status = TRUE]

\* An "if isgood:" block that clears need_unlock whatever was in flight.
good_effects_clears_unlock(d) ==
    LET m == d.gc.next_grbl_msg IN
    [d EXCEPT
       !.gc.next_grbl_msg.received = TRUE,
       !.state.next_move.received = IF m.msg_type = "MOVE" THEN TRUE ELSE @,
       !.gc.need_send_next_move = IF m.msg_type = "MOVE" THEN FALSE ELSE @,
       !.gc.need_unlock = FALSE,
       !.gc.need_reset = IF m.msg = GrblCmd("SOFT_RESET") THEN FALSE ELSE @,
       !.gc.need_send_setting = IF m.msg_type = "SETTING" THEN FALSE ELSE @]

\* The "if isgood:" block that ends handle_grbl_response.
good_effects(d) ==
    LET m == d.gc.next_grbl_msg IN
    [d EXCEPT
       !.gc.next_grbl_msg.received = TRUE,
       !.state.next_move.received = IF m.msg_type = "MOVE" THEN TRUE ELSE @,
       !.gc.need_send_next_move = IF m.msg_type = "MOVE" THEN FALSE ELSE @,
       !.gc.need_unlock = IF m.msg = GrblCmd("UNLOCK") THEN FALSE ELSE @,
       !.gc.need_reset = IF m.msg = GrblCmd("SOFT_RESET") THEN FALSE ELSE @,
       !.gc.need_send_setting = IF m.msg_type = "SETTING" THEN FALSE ELSE @]

handle_grbl_response(d0, line) ==
    LET msg_type == grbl_resp_msg_txt_to_obj(line)
        d == [d0 EXCEPT !.gc.last_grbl_resp = msg_type,
                        !.gc.next_grbl_msg.response = line.has]
        d1 == resp_effects(d, msg_type, line)
    IN IF d1.exc THEN d1
       ELSE IF isgood(msg_type, d.gc.next_grbl_msg) THEN good_effects(d1)
       ELSE d1

\* ------------------------------------------------------ command generator
\* next_move_to_msg: set_t_grbl, then the move is checked and formatted.
\* A next_move_to_msg that stages the move without calling check_move.
next_move_to_msg_unchecked(d) ==
    IF set_t_grbl_raises(d.state.prev_move, d.state.next_move) THEN Raise(d)
    ELSE
    LET d1 == [d EXCEPT
                 !.state.next_move = set_t_grbl(d.state.prev_move, @)]
        move == d1.state.next_move
    IN IF ~is_empty(move)
       THEN IF format_move_raises(move) THEN Raise(d1)
            ELSE [d1 EXCEPT
                    !.gc.next_grbl_msg = GrblSendMsg("MOVE", format_move(move))]
       ELSE [d1 EXCEPT !.gc.next_grbl_msg = EmptyMsg,
                       !.gc.need_send_next_move = FALSE]

\* GrblCommunicator.next_move_to_msg.
next_move_to_msg(d) ==
    IF set_t_grbl_raises(d.state.prev_move, d.state.next_move) THEN Raise(d)
    ELSE
    LET d1 == [d EXCEPT
                 !.state.next_move = set_t_grbl(d.state.prev_move, @)]
        move == d1.state.next_move
    IN IF ~is_empty(move)
       THEN IF check_move_raises(move) THEN Raise(d1)
            ELSE IF check_move(d1.state.limits_hit, d1.state.grbl,
                               d1.state.flags.need_homing, move)
            THEN IF format_move_raises(move) THEN Raise(d1)
                 ELSE [d1 EXCEPT
                         !.gc.next_grbl_msg = GrblSendMsg("MOVE", format_move(move))]
            ELSE [d1 EXCEPT !.gc.need_send_next_move = FALSE,
                            !.rejected = TRUE]
       ELSE [d1 EXCEPT !.gc.next_grbl_msg = EmptyMsg,
                       !.gc.need_send_next_move = FALSE]

homing_next_msg(d) ==
    LET g == d.state.grbl
        away(dr) == Move(Some(g.mpos_r + dr), Some(g.mpos_t),
                         Some(HOMING_SPEED), None)
        d1 == IF d.state.limits_hit.hard_r_min
              THEN [d EXCEPT !.state.next_move = away(HOMING_BACKOFF)]
              ELSE IF d.state.limits_hit.hard_r_max
              THEN [d EXCEPT !.state.next_move = away(-HOMING_BACKOFF)]
              ELSE IF d.cfg.GRBL_HOMING_ON /\ ~d.cfg.CUSTOM_HOMING_ON
              THEN [d EXCEPT !.gc.next_grbl_msg = CmdMsg("HOME")]
              ELSE d
    IN next_move_to_msg(d1)

\* A Setup selection that unlocks before it asks for the status.
generate_setup_unlock_first(d) ==
    IF d.gc.need_reset THEN [d EXCEPT !.gc.next_grbl_msg = CmdMsg("SOFT_RESET")]
    ELSE IF d.gc.need_unlock THEN [d EXCEPT !.gc.next_grbl_msg = CmdMsg("UNLOCK")]
    ELSE IF d.gc.need_status THEN [d EXCEPT !.gc.next_grbl_msg = CmdMsg("STATUS")]
    ELSE IF d.gc.need_get_settings
    THEN [d EXCEPT !.gc.next_grbl_msg = CmdMsg("GET_SETTINGS")]
    ELSE IF d.gc.need_send_setting THEN d
    ELSE IF d.state.flags.need_homing /\ d.cfg.GRBL_HOMING_ON THEN homing_next_msg(d)
    ELSE [d EXCEPT !.gc.next_grbl_msg = EmptyMsg]

generate_setup(d) ==
    IF d.gc.need_reset THEN [d EXCEPT !.gc.next_grbl_msg = CmdMsg("SOFT_RESET")]
    ELSE IF d.gc.need_status THEN [d EXCEPT !.gc.next_grbl_msg = CmdMsg("STATUS")]
    ELSE IF d.gc.need_unlock THEN [d EXCEPT !.gc.next_grbl_msg = CmdMsg("UNLOCK")]
    ELSE IF d.gc.need_get_settings
    THEN [d EXCEPT !.gc.next_grbl_msg = CmdMsg("GET_SETTINGS")]
    ELSE IF d.gc.need_send_setting THEN d
    ELSE IF d.state.flags.need_homing /\ d.cfg.GRBL_HOMING_ON THEN homing_next_msg(d)
    ELSE [d EXCEPT !.gc.next_grbl_msg = EmptyMsg]

generate_sense(d) ==
    IF d.gc.need_reset THEN [d EXCEPT !.gc.next_grbl_msg = CmdMsg("SOFT_RESET")]
    ELSE IF d.gc.need_status THEN [d EXCEPT !.gc.next_grbl_msg = CmdMsg("STATUS")]
    ELSE [d EXCEPT !.gc.next_grbl_msg = EmptyMsg]

\* An Act selection that does not look at need_unlock.
generate_act_skips_unlock(d) ==
    IF d.gc.need_reset THEN [d EXCEPT !.gc.next_grbl_msg = CmdMsg("SOFT_RESET")]
    ELSE IF d.gc.need_status THEN [d EXCEPT !.gc.next_grbl_msg = CmdMsg("STATUS")]
    ELSE IF d.gc.need_send_next_move THEN next_move_to_msg(d)
    ELSE [d EXCEPT !.gc.next_grbl_msg = EmptyMsg]

\* An Act selection that asks for the status before it resets.
generate_act_status_first(d) ==
    IF d.gc.need_status THEN [d EXCEPT !.gc.next_grbl_msg = CmdMsg("STATUS")]
    ELSE IF d.gc.need_reset THEN [d EXCEPT !.gc.next_grbl_msg = CmdMsg("SOFT_RESET")]
    ELSE IF d.gc.need_unlock THEN [d EXCEPT !.gc.next_grbl_msg = CmdMsg("UNLOCK")]
    ELSE IF d.gc.need_send_next_move THEN next_move_to_msg(d)
    ELSE [d EXCEPT !.gc.next_grbl_msg = EmptyMsg]

generate_act(d) ==
    IF d.gc.need_reset THEN [d EXCEPT !.gc.next_grbl_msg = CmdMsg("SOFT_RESET")]
    ELSE IF d.gc.need_status THEN [d EXCEPT !.gc.next_grbl_msg = CmdMsg("STATUS")]
    ELSE IF d.gc.need_unlock THEN [d EXCEPT !.gc.next_grbl_msg = CmdMsg("UNLOCK")]
    ELSE IF d.gc.need_send_next_move THEN next_move_to_msg(d)
    ELSE [d EXCEPT !.gc.next_grbl_msg = EmptyMsg]

generate_msg(d) ==
    LET d1 == IF d.gc.need_ping
              THEN [d EXCEPT !.gc.next_grbl_msg = CmdMsg("PING"),
                             !.gc.need_ping = FALSE]
              ELSE d
    IN CASE d1.state.phase = "SETUP" -> generate_setup(d1)
         [] d1.state.phase = "SENSE" -> generate_sense(d1)
         [] d1.state.phase = "ACT" -> generate_act(d1)
         [] OTHER -> d1

\* ------------------------------------------------------------------ state
VARIABLES
    gc,          \* GrblCommunicator fields
    state,       \* State fields
    cfg,         \* GRBL_HOMING_ON, CUSTOM_HOMING_ON
    data_queue,  \* FIFO filled by read_from_port, emptied by run()
    pc,          \* where the driver is: idle, top, drain, await, exited, raised
    success,     \* what the last finished run() returned
    port_out,    \* bytes the last step wrote to the serial port, or None
    awaiting,    \* commands written by run() whose response was not yet taken
    gen_rejected,\* the last step's generate_msg refused the pending move
    timed_out,   \* the await loop of run() passed its deadline
    after_alarm, \* an Alarm was handled in Setup or Act, no command written since
    connected,   \* serial_connect has pinged the device
    dev_left,    \* lines the device may still emit
    sync,        \* where sync_settings is, and what its calls did
    stopped,     \* Sandscape.stop has been called
    reader_alive,\* the reader thread is in its loop
    port_open,   \* serial.Serial(...) has opened the port
    reconnect,   \* hard_reset: its frame below a nested run(), its calls
    moves_written, \* Moves written since run() was entered (2: two or more)
    timeout      \* the local timeout of run(): the deadline of its await loop

vars == <<gc, state, cfg, data_queue, pc, success, port_out, awaiting,
          gen_rejected, timed_out, after_alarm, connected, dev_left, sync,
          stopped, reader_alive, port_open, reconnect, moves_written,
          timeout>>

\* hard_reset has not been called: frame is set while hard_reset waits
\* for the ping of its serial_connect, calls counts the calls of
\* hard_reset since need_grbl_hard_reset was last set.
NoReconnect == [frame |-> FALSE, calls |-> 0]

\* sync_settings has not been called: pc is the place in sync_settings,
\* todo the keys its loop has still to write, result what the last call
\* returned, calls the number of calls, writes the Setting messages the
\* last call wrote, asked whether it wrote GetSettings.
NoSync == [pc |-> "none", todo |-> << >>, result |-> "None", calls |-> 0,
           writes |-> 0, asked |-> FALSE]

Cur == [gc |-> gc, state |-> state, cfg |-> cfg, exc |-> FALSE, rejected |-> FALSE]

InitGc ==
    [need_reset |-> FALSE, need_ping |-> FALSE, need_status |-> FALSE,
     need_unlock |-> FALSE, need_send_setting |-> FALSE,
     need_get_settings |-> FALSE, need_send_next_move |-> FALSE,
     expecting_extra_msg |-> FALSE, curr_grbl_settings |-> {},
     last_grbl_resp |-> "NONE", next_grbl_msg |-> EmptyMsg,
     run_control_loop |-> TRUE]

InitState ==
    [phase |-> "SETUP",
     limits_hit |-> LimitsHit(TRUE, TRUE, TRUE, TRUE),
     prev_limits_hit |-> LimitsHit(FALSE, TRUE, TRUE, TRUE),
     grbl |-> Grbl("", 0, 0, PLANNER_EMPTY, FALSE, FALSE),
     flags |-> [need_homing |-> FALSE, run_control_loop |-> TRUE,
               need_grbl_hard_reset |-> FALSE],
     next_move |-> Move(Some(0), Some(0), None, Some(0)),
     prev_move |-> Move(Some(0), Some(0), None, Some(0))]

\* Sandscape.__init__. grbl_home is only called when the custom homing
\* sequence is not the one in use, so CUSTOM_HOMING_ON is off here.
Init ==
    /\ gc = InitGc
    /\ state = InitState
    /\ cfg \in [GRBL_HOMING_ON : BOOLEAN, CUSTOM_HOMING_ON : {FALSE}]
    /\ data_queue = << >>
    /\ pc = "idle"
    /\ success = "None"
    /\ port_out = None
    /\ awaiting = 0
    /\ gen_rejected = FALSE
    /\ timed_out = FALSE
    /\ after_alarm = FALSE
    /\ connected = FALSE
    /\ dev_left = MaxLines
    /\ sync = NoSync
    /\ stopped = FALSE
    /\ reader_alive = TRUE
    /\ port_open = FALSE
    /\ reconnect = NoReconnect
    /\ moves_written = 0
    /\ timeout = "run_comm_timeout"

\* ------------------------------------------------------------- transport
\* read_from_port: the reader thread puts each non-empty decoded line on
\* the FIFO, in arrival order, whatever the driver is doing; serial_connect
\* starts the thread and waits two seconds before it pings, so lines may
\* be queued before the first run(). A line that strip() leaves empty is
\* not queued. int(decoded_line[16]) is evaluated for a line of 17
\* characters: a character that is no digit raises ValueError, the handler
\* of the loop calls exit() and the thread ends before the line is queued.
int_raises(line) == line.shape = "len17"

device_emits(lines) ==
    /\ pc \notin {"exited", "raised"}
    /\ reader_alive
    /\ dev_left > 0
    /\ Len(data_queue) < MaxQueue
    /\ \E line \in lines :
          /\ reader_alive' = ~int_raises(line)
          /\ data_queue' = IF int_raises(line) \/ line.shape = "blank"
                            THEN data_queue
                            ELSE Append(data_queue, line)
    /\ dev_left' = dev_left - 1
    /\ port_out' = None
    /\ gen_rejected' = FALSE
    /\ UNCHANGED <<gc, state, cfg, pc, success, awaiting, timed_out, after_alarm,
                   connected, sync, stopped, port_open, reconnect, moves_written, timeout>>

read_from_port ==
    /\ device_emits(DeviceLines)

\* ------------------------------------------------------------------ run()
\* Where the while-loop of run() resumes: the 0.1 s pause is taken first
\* when a trailing message is expected.
loop_head(d) == IF d.gc.expecting_extra_msg THEN "top" ELSE "drain"

\* An end test that does not look at expecting_extra_msg.
run_finished_ignores_extra(d) == d.gc.next_grbl_msg.msg_type = "EMPTY"

\* The test that ends run(): nothing to send and no trailing message.
run_finished(d) ==
    d.gc.next_grbl_msg.msg_type = "EMPTY" /\ ~d.gc.expecting_extra_msg

\* A run() that goes back to the head of its loop after a write,
\* without waiting for the response.
after_write_pc_skip == "drain"

\* Where "return True" of run() goes: to the caller, or back into
\* hard_reset when this run() is the ping of its serial_connect.
run_returns == IF reconnect.frame THEN "reconnected" ELSE "idle"

\* A write that extends the deadline for SoftReset as well.
write_timeout_reset_too(m, t) ==
    IF m.msg \in {GrblCmd("HOME"), GrblCmd("SOFT_RESET")} THEN "homing" ELSE t

\* "if self.next_grbl_msg.msg == GrblCmd.HOME.value: timeout = 60", before
\* the write; "homing" stands for the 60 seconds, "run_comm_timeout" for
\* the value run() took from self.run_comm_timeout when it was entered.
write_timeout(m, t) == IF m.msg = GrblCmd("HOME") THEN "homing" ELSE t

\* Where run() waits after grbl_write_next_msg.
after_write_pc == "await"

\* What the timeout branch of run() does: exit() ends the process before
\* the return False below it is reached.
on_timeout == "exited"

\* The line is an Alarm and the run handling it is in Setup or Act.
alarm_in_setup_or_act(line) ==
    /\ grbl_resp_msg_txt_to_obj(line) = "RESP_ALARM"
    /\ state.phase \in {"SETUP", "ACT"}

\* A head of run() that leaves need_grbl_hard_reset set.
clear_hard_reset_keeps(st) == st

\* "self.state.flags.need_grbl_hard_reset = False", before hard_reset().
clear_hard_reset(st) == [st EXCEPT !.flags.need_grbl_hard_reset = FALSE]

\* The test at the head of run().
needs_hard_reset(g, st) == st.flags.need_grbl_hard_reset /\ ~g.need_ping

\* Entry of run(), after the caller has set its intent. When the test at
\* its head passes, the flag is cleared and hard_reset() called:
\* serial_disconnect stops the reader and closes the port, serial_connect
\* opens it again with a new FIFO and a new reader and calls ping(), which
\* sets need_ping and calls run() again; that run() makes the same test.
\* hard_reset stays on the stack until the run() of the ping returns.
run_call(g, st, sy) ==
    LET hr == needs_hard_reset(g, st)
        st1 == IF hr THEN clear_hard_reset(st) ELSE st
        g1 == IF hr THEN [g EXCEPT !.need_ping = TRUE] ELSE g
        nested == hr /\ needs_hard_reset(g1, st1)
    IN
    /\ connected' = TRUE
    /\ gc' = g1
    /\ state' = IF nested THEN clear_hard_reset(st1) ELSE st1
    /\ sync' = sy
    /\ pc' = loop_head([gc |-> g1])
    /\ success' = "None"
    /\ port_out' = None
    /\ gen_rejected' = FALSE
    /\ data_queue' = IF hr THEN << >> ELSE data_queue
    /\ reader_alive' = (hr \/ reader_alive)
    /\ port_open' = (hr \/ port_open)
    /\ reconnect' = IF nested THEN [frame |-> TRUE, calls |-> reconnect.calls + 2]
                    ELSE IF hr THEN [frame |-> TRUE, calls |-> reconnect.calls + 1]
                    ELSE reconnect
    /\ moves_written' = 0
    /\ timeout' = "run_comm_timeout"
    /\ UNCHANGED <<cfg, awaiting, timed_out, after_alarm, dev_left, stopped>>

\* run() called from outside sync_settings.
run_enter(g, st) == run_call(g, st, sync)

\* time.sleep(0.1) while a trailing message is expected.
RunSleep ==
    /\ pc = "top"
    /\ pc' = "drain"
    /\ port_out' = None
    /\ gen_rejected' = FALSE
    /\ UNCHANGED <<gc, state, cfg, data_queue, success, awaiting, timed_out,
                   after_alarm, connected, dev_left, sync, stopped, reader_alive, port_open, reconnect, moves_written, timeout>>

\* One turn of "while not self.data_queue.empty()".
RunDrain ==
    /\ pc = "drain"
    /\ data_queue # << >>
    /\ LET d == handle_grbl_response(Cur, Head(data_queue)) IN
         /\ gc' = d.gc
         /\ state' = d.state
         /\ pc' = IF d.exc THEN "raised" ELSE "drain"
    /\ data_queue' = Tail(data_queue)
    /\ after_alarm' = (after_alarm \/ alarm_in_setup_or_act(Head(data_queue)))
    /\ port_out' = None
    /\ gen_rejected' = FALSE
    /\ UNCHANGED <<cfg, success, awaiting, timed_out, connected, dev_left, sync, stopped, reader_alive, port_open, reconnect, moves_written, timeout>>

\* generate_msg at the head of the loop, then the write or the end test.
\* serial_port.write on a port that was not opened raises
\* PortNotOpenError, which nothing in run() catches.
RunGenerate ==
    /\ pc = "drain"
    /\ data_queue = << >>
    /\ LET d == generate_msg(Cur)
           m == d.gc.next_grbl_msg
           wants == ~d.exc /\ m.msg_type # "EMPTY"
           write == wants /\ port_open
       IN
         /\ gc' = IF write THEN [d.gc EXCEPT !.next_grbl_msg.sent = TRUE] ELSE d.gc
         /\ state' = d.state
         /\ port_out' = IF write THEN Some(m.msg) ELSE None
         /\ awaiting' = IF write THEN (IF awaiting < 2 THEN awaiting + 1 ELSE 2)
                        ELSE awaiting
         /\ gen_rejected' = d.rejected
         /\ after_alarm' = (after_alarm /\ ~write)
         /\ pc' = IF d.exc \/ (wants /\ ~port_open) THEN "raised"
                  ELSE IF write THEN after_write_pc
                  ELSE IF run_finished(d) THEN run_returns
                  ELSE loop_head(d)
         /\ success' = IF ~d.exc /\ ~wants /\ run_finished(d) THEN "True" ELSE success
         /\ sync' = IF write /\ m.msg_type = "SETTING" /\ sync.writes < 2
                    THEN [sync EXCEPT !.writes = @ + 1]
                    ELSE IF write /\ m.msg = GrblCmd("GET_SETTINGS")
                    THEN [sync EXCEPT !.asked = TRUE]
                    ELSE sync
         /\ timeout' = IF write THEN write_timeout(m, timeout) ELSE timeout
         /\ moves_written' = IF pc' \notin {"top", "drain", "await"} THEN 0
                             ELSE IF write /\ m.msg_type = "MOVE" /\ moves_written < 2
                             THEN moves_written + 1
                             ELSE moves_written
    /\ UNCHANGED <<cfg, data_queue, timed_out, connected, dev_left, stopped,
                   reader_alive, port_open, reconnect>>

\* The await loop finds a line: it is classified and handled, the next
\* message is generated and the end test is made.
RunAwaitRecv ==
    /\ pc = "await"
    /\ data_queue # << >>
    /\ LET d1 == handle_grbl_response(Cur, Head(data_queue))
           d == IF d1.exc THEN d1 ELSE generate_msg(d1)
       IN
         /\ gc' = d.gc
         /\ state' = d.state
         /\ gen_rejected' = d.rejected
         /\ pc' = IF d.exc THEN "raised"
                  ELSE IF run_finished(d) THEN run_returns
                  ELSE loop_head(d)
         /\ success' = IF ~d.exc /\ run_finished(d) THEN "True" ELSE success
    /\ data_queue' = Tail(data_queue)
    /\ awaiting' = IF awaiting > 0 THEN awaiting - 1 ELSE 0
    /\ after_alarm' = (after_alarm \/ alarm_in_setup_or_act(Head(data_queue)))
    /\ port_out' = None
    /\ moves_written' = IF pc' \in {"top", "drain"} THEN moves_written ELSE 0
    /\ UNCHANGED <<cfg, timed_out, connected, dev_left, sync, stopped, reader_alive, port_open, reconnect, timeout>>

\* time.time() > end_time in the await loop.
RunTimeout ==
    /\ pc = "await"
    /\ pc' = on_timeout
    /\ timed_out' = TRUE
    /\ port_out' = None
    /\ gen_rejected' = FALSE
    /\ UNCHANGED <<gc, state, cfg, data_queue, success, awaiting, after_alarm,
                   connected, dev_left, sync, stopped, reader_alive, port_open, reconnect, moves_written, timeout>>

\* The ping of hard_reset's serial_connect has returned: serial_connect
\* and hard_reset return, and the run() that called hard_reset goes on to
\* its loop.
hard_reset_return ==
    /\ pc = "reconnected"
    /\ pc' = loop_head(Cur)
    /\ success' = "None"
    /\ reconnect' = [reconnect EXCEPT !.frame = FALSE]
    /\ timeout' = "run_comm_timeout"
    /\ port_out' = None
    /\ gen_rejected' = FALSE
    /\ UNCHANGED <<gc, state, cfg, data_queue, awaiting, timed_out, after_alarm,
                   connected, dev_left, sync, stopped, reader_alive, port_open, moves_written>>

\* ------------------------------------------------- callers of the driver
\* serial_connect: the port is opened, the reader thread started and
\* GrblCommunicator.ping called, before any other call of the driver.
ping ==
    /\ pc = "idle"
    /\ ~stopped
    /\ ~connected
    /\ connected' = TRUE
    /\ port_open' = TRUE
    /\ gc' = [gc EXCEPT !.need_ping = TRUE]
    /\ pc' = loop_head([gc |-> gc])
    /\ success' = "None"
    /\ port_out' = None
    /\ gen_rejected' = FALSE
    /\ moves_written' = 0
    /\ timeout' = "run_comm_timeout"
    /\ UNCHANGED <<state, cfg, data_queue, awaiting, timed_out, after_alarm,
                   dev_left, sync, stopped, reader_alive, reconnect>>

\* GrblCommunicator.startup when serial.Serial(...) raises: serial_connect
\* catches the exception and returns False before the reader thread is
\* started or the ping made; startup does not look at what it returned,
\* sets need_reset and need_unlock and calls run().
startup_open_fails ==
    /\ pc = "idle"
    /\ ~stopped
    /\ ~connected
    /\ data_queue = << >>
    /\ dev_left = MaxLines
    /\ connected' = TRUE
    /\ reader_alive' = FALSE
    /\ gc' = [gc EXCEPT !.need_reset = TRUE, !.need_unlock = TRUE]
    /\ pc' = loop_head([gc |-> gc])
    /\ success' = "None"
    /\ port_out' = None
    /\ gen_rejected' = FALSE
    /\ moves_written' = 0
    /\ timeout' = "run_comm_timeout"
    /\ UNCHANGED <<state, cfg, data_queue, awaiting, timed_out, after_alarm,
                   dev_left, sync, stopped, port_open, reconnect>>

\* GrblCommunicator.startup: reset and unlock. The Setup-phase calls of
\* Sandscape.startup are taken in any order and number, which includes
\* the order main.py takes them in.
startup ==
    /\ pc = "idle"
    /\ ~stopped
    /\ connected
    /\ state.phase = "SETUP"
    /\ run_enter([gc EXCEPT !.need_reset = TRUE, !.need_unlock = TRUE], state)

\* GrblCommunicator.status, as Sandscape.startup calls it.
status ==
    /\ pc = "idle"
    /\ ~stopped
    /\ connected
    /\ state.phase = "SETUP"
    /\ run_enter([gc EXCEPT !.need_status = TRUE], state)

\* GrblCommunicator.grbl_home; a run that returns leaves
\* flags.run_control_loop as it was (success is True).
grbl_home ==
    /\ pc = "idle"
    /\ ~stopped
    /\ connected
    /\ state.phase = "SETUP"
    /\ cfg.GRBL_HOMING_ON
    /\ run_enter(gc, [state EXCEPT !.flags.need_homing = TRUE])

\* The table sync_settings is called with, in the order of its keys; the
\* calls treat every key alike, and the first one stands for the table.
GRBL_SETTINGS == << <<0, 10>> >>

\* f"${key}={value}\n" staged as a Setting message.
setting_msg(kv) == GrblSendMsg("SETTING", <<"$", kv[1], kv[2]>>)

\* A comparison that never finds the settings up to date.
settings_up_to_date_never(g) == g.curr_grbl_settings = {<<-1, -1>>}

\* self.curr_grbl_settings == grbl_settings
settings_up_to_date(g) ==
    g.curr_grbl_settings = {GRBL_SETTINGS[i] : i \in DOMAIN GRBL_SETTINGS}

\* sync_settings returns without another run().
sync_return(result) ==
    /\ sync' = [sync EXCEPT !.pc = "done", !.result = result]
    /\ port_out' = None
    /\ gen_rejected' = FALSE
    /\ UNCHANGED <<gc, state, cfg, data_queue, pc, success, awaiting, timed_out,
                   after_alarm, connected, dev_left, stopped, reader_alive, port_open, reconnect, moves_written, timeout>>

\* One turn of the loop over the table: the Setting message is staged,
\* need_send_setting set and run() called.
sync_send_setting(keys) ==
    run_call([gc EXCEPT !.next_grbl_msg = setting_msg(Head(keys)),
                        !.need_send_setting = TRUE],
             state,
             [sync EXCEPT !.pc = "set", !.todo = Tail(keys)])

\* sync_settings, up to its first run(): the settings are asked for.
sync_settings ==
    /\ pc = "idle"
    /\ ~stopped
    /\ connected
    /\ state.phase = "SETUP"
    /\ sync.pc \in {"none", "done"}
    /\ run_call([gc EXCEPT !.need_get_settings = TRUE], state,
                [pc |-> "get", todo |-> << >>, result |-> "None",
                 calls |-> IF sync.calls < 2 THEN sync.calls + 1 ELSE 2,
                 writes |-> 0, asked |-> FALSE])

\* sync_settings after its first run() returned True: the settings read
\* are compared with the table, and the loop over the table is entered if
\* they differ.
sync_after_get ==
    /\ pc = "idle"
    /\ sync.pc = "get"
    /\ IF settings_up_to_date(gc) THEN sync_return("True")
       ELSE sync_send_setting(GRBL_SETTINGS)

\* sync_settings after the run() of one key returned True: the next key,
\* or the settings are asked for again after the last one.
sync_next_key ==
    /\ pc = "idle"
    /\ sync.pc = "set"
    /\ IF sync.todo # << >> THEN sync_send_setting(sync.todo)
       ELSE run_call([gc EXCEPT !.need_get_settings = TRUE], state,
                     [sync EXCEPT !.pc = "reget"])

\* sync_settings after its last run() returned True.
sync_after_reget ==
    /\ pc = "idle"
    /\ sync.pc = "reget"
    /\ sync_return(IF settings_up_to_date(gc) THEN "True" ELSE "False")

\* Sandscape.stop, which Sandscape.run calls when its while-loop is over:
\* the soft-reset byte is written to the port directly, the phase set to
\* Setup and GrblCommunicator.status called. The loop is over when
\* flags.run_control_loop, a field of the State shared with the modes, is
\* found off at the head of the loop; who turns it off is outside the
\* driver.
stop ==
    /\ pc = "idle"
    /\ ~stopped
    /\ connected
    /\ state.phase \in {"SETUP", "ACT"}
    /\ stopped' = TRUE
    /\ gc' = [gc EXCEPT !.need_status = TRUE]
    /\ state' = [state EXCEPT !.phase = "SETUP"]
    /\ pc' = loop_head([gc |-> gc])
    /\ success' = "None"
    /\ port_out' = Some(GrblCmd("SOFT_RESET"))
    /\ gen_rejected' = FALSE
    /\ moves_written' = 0
    /\ timeout' = "run_comm_timeout"
    /\ UNCHANGED <<cfg, data_queue, awaiting, timed_out, after_alarm, connected,
                   dev_left, sync, reader_alive, port_open, reconnect>>

\* State.iterate, at the head of the control loop.
iterate ==
    /\ pc = "idle"
    /\ ~stopped
    /\ connected
    /\ state.phase \in {"SETUP", "ACT"}
    /\ state.flags.run_control_loop
    /\ state' = [state EXCEPT
                   !.phase = "ITERATE",
                   !.prev_limits_hit = state.limits_hit,
                   !.prev_move = IF state.next_move.received
                                 THEN state.next_move ELSE @]
    /\ port_out' = None
    /\ gen_rejected' = FALSE
    /\ UNCHANGED <<gc, cfg, data_queue, pc, success, awaiting, timed_out,
                   after_alarm, connected, dev_left, sync, stopped, reader_alive, port_open, reconnect, moves_written, timeout>>

\* Sandscape.sense: every mode needs the device status.
sense ==
    /\ pc = "idle"
    /\ state.phase = "ITERATE"
    /\ run_enter([gc EXCEPT !.need_status = TRUE],
                 [state EXCEPT !.phase = "SENSE"])

\* Moves a mode may hand over: none, a point inside the dish, a point
\* beyond its rim.
ProducerMoves ==
    { Move(None, None, None, None),
      Move(Some(50), Some(10), Some(2000), None),
      Move(Some(300), Some(350), Some(2000), None) }

\* Sandscape.think with State.think_check_if_input_changed and
\* think_check_if_buffer_space. ext_change: the dials, the touch sensors or
\* the end of a mode ask for a new path; theta_changed: the theta switch
\* changed since iterate().
think_with(ext_change, theta_changed, mv, hard_reset_wanted) ==
    LET lh == state.limits_hit
        limits_changed == state.prev_limits_hit # lh \/ theta_changed
        soft == limits_changed /\ (lh.soft_r_min \/ lh.soft_r_max)
        hard == limits_changed /\ (lh.hard_r_min \/ lh.hard_r_max)
        input_change == soft \/ hard \/ ext_change
        buffer_space == state.grbl.planner_buffer >= 1
        g == state.grbl
        restart == Move(Some(g.mpos_r), Some(g.mpos_t % FULL_TURN), Some(0),
                        Some(g.mpos_t))
        sets_flag == hard_reset_wanted /\ (input_change \/ buffer_space)
    IN
    /\ pc = "idle"
    /\ state.phase = "SENSE"
    /\ state' = [state EXCEPT
                   !.phase = "THINK",
                   !.flags.need_homing = @ \/ hard,
                   !.flags.need_grbl_hard_reset = @ \/ sets_flag,
                   !.prev_move = IF input_change THEN restart ELSE @,
                   !.next_move = IF input_change \/ buffer_space THEN mv ELSE @]
    /\ gc' = [gc EXCEPT
                !.need_reset = @ \/ input_change,
                !.need_send_next_move = @ \/ input_change \/ buffer_space]
    /\ port_out' = None
    /\ gen_rejected' = FALSE
    /\ reconnect' = IF sets_flag THEN [reconnect EXCEPT !.calls = 0] ELSE reconnect
    /\ UNCHANGED <<cfg, data_queue, pc, success, awaiting, timed_out,
                   after_alarm, connected, dev_left, sync, stopped, reader_alive, port_open, moves_written, timeout>>

\* Sandscape.think with a mode that is not at the end of the homing
\* sequence.
think(ext_change, theta_changed, mv) ==
    /\ think_with(ext_change, theta_changed, mv, FALSE)

\* Sandscape.think when the mode is a HomingSequence that has found both
\* zeros while the device reports a position other than (0, 0): next_move,
\* when think calls it, asks for the hard reconnect and returns Move().
HomingSequence_next_move(ext_change, theta_changed) ==
    /\ cfg.CUSTOM_HOMING_ON
    /\ state.grbl.mpos_r # 0 \/ state.grbl.mpos_t # 0
    /\ think_with(ext_change, theta_changed, Move(None, None, None, None), TRUE)

\* Sandscape.act.
act ==
    /\ pc = "idle"
    /\ state.phase = "THINK"
    /\ state.flags.run_control_loop
    /\ run_enter(gc, [state EXCEPT !.phase = "ACT"])

Next ==
    \/ read_from_port
    \/ RunSleep
    \/ RunDrain
    \/ RunGenerate
    \/ RunAwaitRecv
    \/ RunTimeout
    \/ ping
    \/ startup
    \/ status
    \/ grbl_home
    \/ iterate
    \/ sense
    \/ \E ext_change \in BOOLEAN, theta_changed \in BOOLEAN, mv \in ProducerMoves :
          think(ext_change, theta_changed, mv)
    \/ act

Spec == Init /\ [][Next]_vars

\* The steps of run(). The interpreter keeps running the driver's thread,
\* and the deadline of the await loop passes if no line comes.
RunStep == RunSleep \/ RunDrain \/ RunGenerate \/ RunAwaitRecv \/ RunTimeout

FairSpec == Spec /\ WF_vars(RunStep)

\* run() in its drain loop in Setup, nothing staged, with one line of any
\* text in the FIFO: the line is taken, classified and handled.
ClassifyInit ==
    /\ gc = InitGc
    /\ state = InitState
    /\ cfg \in [GRBL_HOMING_ON : BOOLEAN, CUSTOM_HOMING_ON : {FALSE}]
    /\ \E line \in AnyLines : data_queue = <<line>>
    /\ pc = "drain"
    /\ success = "None"
    /\ port_out = None
    /\ awaiting = 0
    /\ gen_rejected = FALSE
    /\ timed_out = FALSE
    /\ after_alarm = FALSE
    /\ connected = TRUE
    /\ dev_left = 0
    /\ sync = NoSync
    /\ stopped = FALSE
    /\ reader_alive = TRUE
    /\ port_open = TRUE
    /\ reconnect = NoReconnect
    /\ moves_written = 0
    /\ timeout = "run_comm_timeout"

ClassifySpec == ClassifyInit /\ [][RunDrain]_vars

\* A device whose $0 differs from the table.
StaleSettingLine == Line({"=", "$"}, NoReport, Some(<<0, 11>>))

\* What the device may emit while the settings are synchronised: its
\* settings, the acknowledgement, a status report, and the lines that ask
\* for a reset, an unlock or a status request.
SyncDeviceLines ==
    { Line({"<", ">"}, Report("Idle", 100, 0, PLANNER_EMPTY, {}), None),
      OkLine, AlarmLine, ErrorLine, StartupLine, OtherLine,
      SettingLine, StaleSettingLine }

SyncLines == MaxLines + 2

\* The communicator after serial_connect, in Setup, with
\* SYNC_GRBL_SETTINGS on: Sandscape.startup and its callers call
\* sync_settings, any number of times.
SyncInit ==
    /\ gc = InitGc
    /\ state = InitState
    /\ cfg \in [GRBL_HOMING_ON : BOOLEAN, CUSTOM_HOMING_ON : {FALSE}]
    /\ data_queue = << >>
    /\ pc = "idle"
    /\ success = "None"
    /\ port_out = None
    /\ awaiting = 0
    /\ gen_rejected = FALSE
    /\ timed_out = FALSE
    /\ after_alarm = FALSE
    /\ connected = TRUE
    /\ dev_left = SyncLines
    /\ sync = NoSync
    /\ stopped = FALSE
    /\ reader_alive = TRUE
    /\ port_open = TRUE
    /\ reconnect = NoReconnect
    /\ moves_written = 0
    /\ timeout = "run_comm_timeout"

sync_read_from_port ==
    /\ device_emits(SyncDeviceLines)

SyncNext ==
    \/ sync_read_from_port
    \/ RunSleep
    \/ RunDrain
    \/ RunGenerate
    \/ RunAwaitRecv
    \/ RunTimeout
    \/ sync_settings
    \/ sync_after_get
    \/ sync_next_key
    \/ sync_after_reget

SyncSpec == SyncInit /\ [][SyncNext]_vars

\* A line of white space only.
BlankLine == [Line({}, NoReport, None) EXCEPT !.shape = "blank"]

\* A line of 17 characters whose last one is no digit, such as the status
\* report "<Idle|WPos:0,0,0>".
Len17Line ==
    [Line({"<", ">"}, Report("Idle", 0, 0, PLANNER_EMPTY, {}), None)
       EXCEPT !.shape = "len17"]

\* What serial_port.readline() may return to the reader thread.
RawLines == DeviceLines \cup {BlankLine, Len17Line}

raw_read_from_port ==
    /\ device_emits(RawLines)

\* The reader thread beside the driver in Setup, from serial_connect on.
ReaderNext ==
    \/ raw_read_from_port
    \/ RunSleep
    \/ RunDrain
    \/ RunGenerate
    \/ RunAwaitRecv
    \/ RunTimeout
    \/ ping
    \/ startup
    \/ status

ReaderSpec == Init /\ [][ReaderNext]_vars

\* GrblCommunicator.startup, with a port that opens or does not.
ConnectNext ==
    \/ read_from_port
    \/ RunSleep
    \/ RunDrain
    \/ RunGenerate
    \/ RunAwaitRecv
    \/ RunTimeout
    \/ ping
    \/ startup
    \/ startup_open_fails

ConnectSpec == Init /\ [][ConnectNext]_vars

\* Sandscape.run from its start to its end, with a control loop that is
\* over at its first test: startup, then stop.
StopNext ==
    \/ read_from_port
    \/ RunSleep
    \/ RunDrain
    \/ RunGenerate
    \/ RunAwaitRecv
    \/ RunTimeout
    \/ ping
    \/ startup
    \/ status
    \/ grbl_home
    \/ stop

StopSpec == Init /\ [][StopNext]_vars

\* Radii a status report or a move may carry: below the dish, inside it,
\* at its rim and beyond.
CheckRadii == {-1, 3, 5, 8, R_MAX, 300}

\* Moves handed to check_move: any radius, with or without an angle.
CheckMoves ==
    { Move(Some(r), t, Some(2000), None) : r \in CheckRadii, t \in {None, Some(10)} }

\* run() in Act at the head of its loop with only the move intent set,
\* for any pending move and any position and limit pins of the last status
\* report, the soft limits being what update_state_from_grbl_msg made of
\* the position: generate_msg calls next_move_to_msg, which calls
\* check_move.
CheckInit ==
    /\ gc = [InitGc EXCEPT !.need_send_next_move = TRUE]
    /\ \E hmin \in BOOLEAN, hmax \in BOOLEAN,
          need_homing \in BOOLEAN, pos_r \in CheckRadii, mv \in CheckMoves :
          state = [InitState EXCEPT
                     !.phase = "ACT",
                     !.limits_hit = LimitsHit(pos_r <= R_MIN, pos_r >= R_MAX,
                                              hmin, hmax),
                     !.grbl.pnX = hmin,
                     !.grbl.pnY = hmax,
                     !.grbl.mpos_r = pos_r,
                     !.flags.need_homing = need_homing,
                     !.next_move = mv]
    /\ cfg \in [GRBL_HOMING_ON : BOOLEAN, CUSTOM_HOMING_ON : {FALSE}]
    /\ data_queue = << >>
    /\ pc = "drain"
    /\ success = "None"
    /\ port_out = None
    /\ awaiting = 0
    /\ gen_rejected = FALSE
    /\ timed_out = FALSE
    /\ after_alarm = FALSE
    /\ connected = TRUE
    /\ dev_left = 0
    /\ sync = NoSync
    /\ stopped = FALSE
    /\ reader_alive = TRUE
    /\ port_open = TRUE
    /\ reconnect = NoReconnect
    /\ moves_written = 0
    /\ timeout = "run_comm_timeout"

CheckSpec == CheckInit /\ [][RunGenerate]_vars

\* Messages that may be staged when generate_msg is called.
StagedMsgs ==
    {EmptyMsg, CmdMsg("STATUS"), CmdMsg("UNLOCK"), setting_msg(GRBL_SETTINGS[1])}

\* run() at the head of its loop with an empty FIFO, in any phase that
\* calls it, with any combination of the intents and any staged message:
\* generate_msg is called, then the write or the end test follows.
GenInit ==
    /\ \E need_reset \in BOOLEAN, need_ping \in BOOLEAN, need_status \in BOOLEAN,
          need_unlock \in BOOLEAN, need_send_setting \in BOOLEAN,
          need_get_settings \in BOOLEAN, need_send_next_move \in BOOLEAN,
          last \in {"NONE", "RESP_ALARM"}, staged \in StagedMsgs :
          gc = [InitGc EXCEPT
                  !.need_reset = need_reset, !.need_ping = need_ping,
                  !.need_status = need_status, !.need_unlock = need_unlock,
                  !.need_send_setting = need_send_setting,
                  !.need_get_settings = need_get_settings,
                  !.need_send_next_move = need_send_next_move,
                  !.last_grbl_resp = last, !.next_grbl_msg = staged]
    /\ \E phase \in {"SETUP", "SENSE", "ACT"}, need_homing \in BOOLEAN,
          mv \in ProducerMoves \cup {InitState.next_move},
          lh \in {InitState.limits_hit, LimitsHit(FALSE, FALSE, FALSE, FALSE)} :
          state = [InitState EXCEPT
                     !.phase = phase, !.flags.need_homing = need_homing,
                     !.next_move = mv, !.limits_hit = lh]
    /\ cfg \in [GRBL_HOMING_ON : BOOLEAN, CUSTOM_HOMING_ON : {FALSE}]
    /\ data_queue = << >>
    /\ pc = "drain"
    /\ success = "None"
    /\ port_out = None
    /\ awaiting = 0
    /\ gen_rejected = FALSE
    /\ timed_out = FALSE
    /\ after_alarm = FALSE
    /\ connected = TRUE
    /\ dev_left = 0
    /\ sync = NoSync
    /\ stopped = FALSE
    /\ reader_alive = TRUE
    /\ port_open = TRUE
    /\ reconnect = NoReconnect
    /\ moves_written = 0
    /\ timeout = "run_comm_timeout"

GenSpec == GenInit /\ [][RunGenerate]_vars

\* ------------------------------------------- the response handler alone
\* The messages that can be in flight when a line is handled: the empty
\* message, each command the generator stages, a setting and a move, each
\* of them written or not yet written.
InFlightMsgs ==
    LET staged == {EmptyMsg, CmdMsg("PING"), CmdMsg("STATUS"), CmdMsg("UNLOCK"),
                   CmdMsg("SOFT_RESET"), CmdMsg("HOME"), CmdMsg("GET_SETTINGS"),
                   setting_msg(GRBL_SETTINGS[1]),
                   GrblSendMsg("MOVE", format_move(Move(Some(100), Some(0), Some(3000), Some(0))))}
    IN { [m EXCEPT !.sent = sent] : m \in staged, sent \in BOOLEAN }

\* run() about to take one line from the FIFO, with any message in flight,
\* any line of the device and any combination of the intents.
HandleInit ==
    /\ \E need_reset \in BOOLEAN, need_status \in BOOLEAN,
          need_unlock \in BOOLEAN, need_send_setting \in BOOLEAN,
          need_send_next_move \in BOOLEAN, expecting_extra_msg \in BOOLEAN,
          m \in InFlightMsgs :
          gc = [InitGc EXCEPT
                  !.need_reset = need_reset, !.need_status = need_status,
                  !.need_unlock = need_unlock,
                  !.need_send_setting = need_send_setting,
                  !.need_send_next_move = need_send_next_move,
                  !.expecting_extra_msg = expecting_extra_msg,
                  !.next_grbl_msg = m]
    /\ \E need_homing \in BOOLEAN :
          state = [InitState EXCEPT !.flags.need_homing = need_homing]
    /\ cfg \in [GRBL_HOMING_ON : {TRUE}, CUSTOM_HOMING_ON : {FALSE}]
    /\ \E line \in DeviceLines : data_queue = <<line>>
    /\ pc = "drain"
    /\ success = "None"
    /\ port_out = None
    /\ awaiting = 0
    /\ gen_rejected = FALSE
    /\ timed_out = FALSE
    /\ after_alarm = FALSE
    /\ connected = TRUE
    /\ dev_left = 0
    /\ sync = NoSync
    /\ stopped = FALSE
    /\ reader_alive = TRUE
    /\ port_open = TRUE
    /\ reconnect = NoReconnect
    /\ moves_written = 0
    /\ timeout = "run_comm_timeout"

HandleSpec == HandleInit /\ [][RunDrain]_vars

\* ------------------------------------------ the custom homing sequence
\* Sandscape.__init__ when CUSTOM_HOMING_ON selects the HomingSequence.
ReconnectInit ==
    /\ gc = InitGc
    /\ state = InitState
    /\ cfg = [GRBL_HOMING_ON |-> FALSE, CUSTOM_HOMING_ON |-> TRUE]
    /\ data_queue = << >>
    /\ pc = "idle"
    /\ success = "None"
    /\ port_out = None
    /\ awaiting = 0
    /\ gen_rejected = FALSE
    /\ timed_out = FALSE
    /\ after_alarm = FALSE
    /\ connected = FALSE
    /\ dev_left = MaxLines
    /\ sync = NoSync
    /\ stopped = FALSE
    /\ reader_alive = TRUE
    /\ port_open = FALSE
    /\ reconnect = NoReconnect
    /\ moves_written = 0
    /\ timeout = "run_comm_timeout"

ReconnectNext ==
    \/ read_from_port
    \/ RunSleep
    \/ RunDrain
    \/ RunGenerate
    \/ RunAwaitRecv
    \/ RunTimeout
    \/ ping
    \/ status
    \/ iterate
    \/ sense
    \/ \E ext_change \in BOOLEAN, theta_changed \in BOOLEAN :
          HomingSequence_next_move(ext_change, theta_changed)
    \/ act
    \/ hard_reset_return

ReconnectSpec == ReconnectInit /\ [][ReconnectNext]_vars

\* ------------------------------------------------- the running table
\* The lines of a table that is running: status reports of a pen at rest
\* inside the dish and of a pen on the inner limit switch,
\* acknowledgements, the welcome message that answers a soft reset and the
\* message that answers an unlock.
RunningLines ==
    { l \in StatusLines : l.report.State # "Run" } \cup
    { OkLine, StartupLine, UnlockedLine }

\* read_from_port with a device that goes on answering: it speaks when it
\* is spoken to, that is while a written command is unanswered or the
\* "ok" after a message is owed, and the reader thread queues each line
\* when the FIFO has room.
read_from_running_port ==
    /\ pc \notin {"exited", "raised"}
    /\ reader_alive
    /\ \/ /\ gc.next_grbl_msg.msg_type # "EMPTY"
          /\ gc.next_grbl_msg.sent
          /\ ~gc.next_grbl_msg.received
       \/ gc.expecting_extra_msg
    /\ Len(data_queue) < MaxQueue
    /\ \E line \in RunningLines : data_queue' = Append(data_queue, line)
    /\ port_out' = None
    /\ gen_rejected' = FALSE
    /\ UNCHANGED <<gc, state, cfg, pc, success, awaiting, timed_out, after_alarm,
                   connected, dev_left, sync, stopped, reader_alive, port_open,
                   reconnect, moves_written, timeout>>

LoopInit ==
    /\ gc = InitGc
    /\ state = InitState
    /\ cfg \in [GRBL_HOMING_ON : BOOLEAN, CUSTOM_HOMING_ON : {FALSE}]
    /\ data_queue = << >>
    /\ pc = "idle"
    /\ success = "None"
    /\ port_out = None
    /\ awaiting = 0
    /\ gen_rejected = FALSE
    /\ timed_out = FALSE
    /\ after_alarm = FALSE
    /\ connected = FALSE
    /\ dev_left = 0
    /\ sync = NoSync
    /\ stopped = FALSE
    /\ reader_alive = TRUE
    /\ port_open = FALSE
    /\ reconnect = NoReconnect
    /\ moves_written = 0
    /\ timeout = "run_comm_timeout"

\* The mode hands over a point inside the dish; the dials, the touch
\* sensors and the theta switch are left alone.
LoopMoves == { Move(Some(50), Some(10), Some(2000), None) }

\* Sandscape.run: startup and then the control loop, one call after the
\* other on the driver's thread.
LoopStep ==
    \/ ping
    \/ startup
    \/ status
    \/ grbl_home
    \/ iterate
    \/ sense
    \/ \E mv \in LoopMoves : think(FALSE, FALSE, mv)
    \/ act

LoopNext ==
    \/ read_from_running_port
    \/ RunStep
    \/ LoopStep

\* run() is at one of its steps: the pause, the drain loop, or the await
\* loop, whose deadline passes when no line comes.
RunStepEnabled == pc \in {"top", "drain", "await"}

\* The driver's thread is kept running. The next call of Sandscape.run is
\* made when run() has returned, and the steps of run() are taken: weak
\* fairness of RunStep, written out with RunStepEnabled for its enabling
\* condition.
LoopSpec ==
    /\ LoopInit
    /\ [][LoopNext]_vars
    /\ WF_vars(LoopStep)
    /\ []<>(~RunStepEnabled) \/ []<><<RunStep>>_vars

\* ================================================================ claims
\* The bytes written are a move line.
IsMoveBytes(o) == o # None /\ Val(o)[1] = "G1"

\* The bytes written are the given command.
IsCmdBytes(o, name) == o = Some(GrblCmd(name))

\* C1: run() has at most one command awaiting a response at any time; a
\* command is written only when none is awaited, and while run() waits in
\* its await loop exactly one is.
C1_OneCommandInFlight ==
    /\ awaiting <= 1
    /\ (pc = "await" => awaiting = 1)
    /\ (port_out # None => pc = "await")

\* A second command of the same run is awaited after the response to the
\* first was taken.
C1_Witness ==
    /\ pc = "await"
    /\ awaiting = 1
    /\ gc.last_grbl_resp = "RESP_STARTUP"
    /\ IsCmdBytes(port_out, "STATUS")

\* C2: when the response deadline passes, run() returns failure to its
\* caller.
C2_TimeoutReturnsFailure ==
    timed_out => (pc = "idle" /\ success = "False")

\* C3: a move line is written only if the pending move, validated by
\* check_move against the pose and limit flags as they are at the write,
\* passes, and the line written is that move's.
C3_MoveValidatedAtWrite ==
    IsMoveBytes(port_out) =>
        /\ ~is_empty(state.next_move)
        /\ check_move(state.limits_hit, state.grbl, state.flags.need_homing,
                      state.next_move)
        /\ port_out = Some(format_move(state.next_move))

\* A move is written after a status report of the same run changed the
\* pose the move is validated against.
C3_Witness ==
    /\ IsMoveBytes(port_out)
    /\ state.phase = "ACT"
    /\ state.grbl.mpos_r = 100
    /\ state.next_move.r = Some(50)

\* C4: when generate_msg refuses the pending move, need_send_next_move is
\* cleared and nothing is written for it.
C4_RejectedMoveSendsNothing ==
    gen_rejected => (port_out = None /\ ~gc.need_send_next_move)

\* C5: whenever generate_msg clears need_ping, the message it leaves staged
\* is Ping, whatever the phase and the other pending flags.
C5_PingOverridesPhase ==
    [][(gc.need_ping /\ ~gc'.need_ping) =>
          gc'.next_grbl_msg.msg = GrblCmd("PING")]_vars

\* run() is between its entry and its end.
Running == pc \in {"top", "drain", "await"}

\* run() has ended: it returned, the process exited, or it raised.
Ended == pc \in {"idle", "exited", "raised"}

\* C6: every run() that is entered ends, whatever the device sends and
\* also when it sends nothing more.
C6_RunEnds == Running ~> Ended

\* The step takes one line from the FIFO and handles it.
HandlesLine == data_queue # << >> /\ data_queue' = Tail(data_queue)

\* The kind of the line the step handles.
HandledKind == grbl_resp_msg_txt_to_obj(Head(data_queue))

FaultKinds ==
    {"RESP_ALARM", "RESP_ERROR", "RESP_CHECKLIMITS", "RESP_NEEDUNLOCK",
     "RESP_OTHER"}

\* C7: a step of run() that handles an Alarm, Error, CheckLimits,
\* NeedUnlock or unrecognised line neither raises nor ends the run in
\* failure, and a run ends in failure only when the await deadline passed.
C7_FaultsNeverFail ==
    [][/\ (HandlesLine /\ HandledKind \in FaultKinds) =>
              (pc' \notin {"raised", "exited"} /\ success' # "False")
       /\ (pc' = "exited" \/ success' = "False") => timed_out']_vars

\* A run took an Error line and went on to write the recovery command.
C7_Witness ==
    /\ gc.last_grbl_resp = "RESP_ERROR"
    /\ pc = "await"
    /\ IsCmdBytes(port_out, "SOFT_RESET")

\* C8 as stated: after an Alarm handled in Setup or Act the next command
\* written is SoftReset, and no Move is written while need_reset,
\* need_status or need_unlock is set.
C8_AlarmThenSoftReset ==
    [][/\ (after_alarm /\ port_out' # None) =>
              IsCmdBytes(port_out', "SOFT_RESET")
       /\ IsMoveBytes(port_out') =>
              (~gc.need_reset /\ ~gc.need_status /\ ~gc.need_unlock)]_vars

\* C8: handling an Alarm in Setup or Act sets need_reset, need_unlock and
\* need_status; in these phases a command generated while need_reset is
\* set is SoftReset, and no Move is written while need_reset, need_status
\* or need_unlock is set.
C8_RecoveryPriority ==
    [][/\ (HandlesLine /\ alarm_in_setup_or_act(Head(data_queue)) /\ pc' # "raised")
              => (gc'.need_reset /\ gc'.need_unlock /\ gc'.need_status)
       /\ (port_out' # None /\ state.phase \in {"SETUP", "ACT"} /\ gc.need_reset)
              => IsCmdBytes(port_out', "SOFT_RESET")
       /\ IsMoveBytes(port_out') =>
              (~gc.need_reset /\ ~gc.need_status /\ ~gc.need_unlock)]_vars

\* SoftReset is written in Act right after an Alarm was handled.
C8_Witness ==
    /\ IsCmdBytes(port_out, "SOFT_RESET")
    /\ gc.last_grbl_resp = "RESP_ALARM"
    /\ state.phase = "ACT"

Abs(x) == IF x < 0 THEN -x ELSE x

\* C10: once set_t_grbl has set the unwrapped angle of the next move, it
\* differs from the previous move's by at most half a turn.
C10_HalfTurnStep ==
    (state.next_move.t_grbl # None /\ state.prev_move.t_grbl # None) =>
        Abs(Val(state.next_move.t_grbl) - Val(state.prev_move.t_grbl)) <= HALF_TURN

\* The classification rules in their order: kind and the substrings that
\* must all occur.
ClassRules ==
    << <<"RESP_STATUS", {"<", ">"}>>,
       <<"RESP_OK", {"ok"}>>,
       <<"RESP_ALARM", {"ALARM"}>>,
       <<"RESP_ERROR", {"error"}>>,
       <<"RESP_STARTUP", {"Grbl 1.1h ['$' for help]"}>>,
       <<"RESP_CHECKLIMITS", {"[MSG:Check Limits]"}>>,
       <<"RESP_NEEDUNLOCK", {"[MSG:'$H'|'$X' to unlock]"}>>,
       <<"RESP_UNLOCKED", {"[MSG:Caution: Unlocked]"}>>,
       <<"RESP_SETTING", {"="}>> >>

\* The kind of the first rule whose substrings all occur, Other if none.
FirstMatch(has) ==
    LET hits == {i \in 1..Len(ClassRules) : ClassRules[i][2] \subseteq has}
    IN IF hits = {} THEN "RESP_OTHER"
       ELSE ClassRules[CHOOSE i \in hits : \A j \in hits : i <= j][1]

\* C11: the kind given to a line is that of the first matching rule in
\* the order Status, Ack, Alarm, Error, Startup, CheckLimits, NeedUnlock,
\* Unlocked, SettingValue, Other; a line with both '<' and '>' is Status
\* whatever else it contains.
C11_FirstMatchWins ==
    [][HandlesLine =>
          /\ gc'.last_grbl_resp = FirstMatch(Head(data_queue).has)
          /\ ({"<", ">"} \subseteq Head(data_queue).has
                 => gc'.last_grbl_resp = "RESP_STATUS")]_vars

\* A line that has the status brackets and also ALARM, ok and error was
\* classified Status.
C11_Witness ==
    /\ gc.last_grbl_resp = "RESP_STATUS"
    /\ {"<", ">", "ALARM", "ok", "error"} \subseteq gc.next_grbl_msg.response

\* C12 as stated: a line that contains ALARM and not both status brackets
\* is classified Alarm.
C12_AlarmUnlessStatus ==
    [][(HandlesLine /\ "ALARM" \in Head(data_queue).has
          /\ ~({"<", ">"} \subseteq Head(data_queue).has))
          => gc'.last_grbl_resp = "RESP_ALARM"]_vars

\* C12: a line that contains ALARM, not both status brackets and no ok is
\* classified Alarm.
C12_AlarmUnlessStatusOrAck ==
    [][(HandlesLine /\ "ALARM" \in Head(data_queue).has
          /\ ~({"<", ">"} \subseteq Head(data_queue).has)
          /\ "ok" \notin Head(data_queue).has)
          => gc'.last_grbl_resp = "RESP_ALARM"]_vars

\* A line with ALARM, error and one bracket sign was classified Alarm.
C12_Witness ==
    /\ gc.last_grbl_resp = "RESP_ALARM"
    /\ {"ALARM", "error", "<"} \subseteq gc.next_grbl_msg.response

\* generate_msg is called by this step with the intents of the state the
\* step starts in: run() is at the head of its loop and the FIFO is empty.
Generates == pc = "drain" /\ data_queue = << >> /\ data_queue' = << >>

\* The command staged after the step is the given one.
Staged(name) == gc'.next_grbl_msg.msg = GrblCmd(name)

\* C13: in Setup and Act generate_msg takes the first intent that is set,
\* in the order need_reset (SoftReset), need_status (Status), need_unlock
\* (Unlock), then in Setup need_get_settings (GetSettings),
\* need_send_setting (the staged Setting message is kept), need_homing, and
\* in Act need_send_next_move (the Move); Empty is staged when none is
\* set, and no command of a lower intent is staged while a higher intent
\* is set. The homing and Move branches are held to their command when
\* the move they build is accepted.
C13_FirstIntentWins ==
    [][(Generates /\ state.phase \in {"SETUP", "ACT"}) =>
         LET setup == state.phase = "SETUP"
             staged == gc'.next_grbl_msg
         IN
         CASE gc.need_reset -> Staged("SOFT_RESET")
           [] ~gc.need_reset /\ gc.need_status -> Staged("STATUS")
           [] ~gc.need_reset /\ ~gc.need_status /\ gc.need_unlock -> Staged("UNLOCK")
           [] OTHER ->
                IF setup /\ gc.need_get_settings THEN Staged("GET_SETTINGS")
                ELSE IF setup /\ gc.need_send_setting
                THEN (gc.next_grbl_msg.msg_type = "SETTING" /\ ~gc.need_ping)
                        => /\ staged.msg = gc.next_grbl_msg.msg
                           /\ port_out' = Some(staged.msg)
                ELSE IF setup /\ state.flags.need_homing /\ cfg.GRBL_HOMING_ON
                THEN (pc' # "raised" /\ ~gen_rejected')
                        => \/ staged.msg_type \in {"MOVE", "EMPTY"}
                           \/ Staged("HOME")
                ELSE IF ~setup /\ gc.need_send_next_move
                THEN (pc' # "raised" /\ ~gen_rejected'
                      /\ ~is_empty(state.next_move))
                        => /\ staged.msg_type = "MOVE"
                           /\ IsMoveBytes(port_out')
                ELSE /\ staged.msg_type = "EMPTY"
                     /\ port_out' = None]_vars

\* Reset, unlock and the settings are all asked for in Setup, and the
\* SoftReset is the command written.
C13_Witness ==
    /\ state.phase = "SETUP"
    /\ gc.need_reset /\ gc.need_unlock /\ gc.need_get_settings
    /\ gc.need_send_setting
    /\ IsCmdBytes(port_out, "SOFT_RESET")

\* C14: in Sense generate_msg stages SoftReset only when need_reset is set
\* and the last classified response was an Alarm; otherwise Status when
\* need_status is set, and Empty in every other case.
C14_SenseResetOnlyAfterAlarm ==
    [][(Generates /\ state.phase = "SENSE") =>
         IF gc.need_reset /\ gc.last_grbl_resp = "RESP_ALARM"
         THEN Staged("SOFT_RESET")
         ELSE IF gc.need_status THEN Staged("STATUS")
         ELSE gc'.next_grbl_msg.msg_type = "EMPTY"]_vars

\* The step ends with the end test of run(): generate_msg was called and
\* no command was written.
EndTest ==
    /\ \/ Generates
       \/ pc = "await" /\ data_queue # << >> /\ data_queue' = Tail(data_queue)
    /\ pc' \notin {"await", "raised", "exited"}

\* C15: run() returns success exactly when the generated command is Empty
\* and no trailing message is expected: a run that returns has returned
\* True with an Empty message staged and expecting_extra_msg off, and an
\* end test that finds both returns at once, without another turn of the
\* loop.
C15_ReturnsExactlyWhenDone ==
    [][/\ (Running /\ pc' = "idle")
            => /\ success' = "True"
               /\ gc'.next_grbl_msg.msg_type = "EMPTY"
               /\ ~gc'.expecting_extra_msg
       /\ EndTest
            => (pc' = "idle" /\ success' = "True")
                 <=> (gc'.next_grbl_msg.msg_type = "EMPTY"
                      /\ ~gc'.expecting_extra_msg)]_vars

\* A run returned success after a command was written and its response
\* handled; nothing is staged or expected.
C15_Witness ==
    /\ pc = "idle"
    /\ success = "True"
    /\ gc.next_grbl_msg.msg_type = "EMPTY"
    /\ ~gc.expecting_extra_msg
    /\ gc.last_grbl_resp = "RESP_STATUS"
    /\ state.grbl.status = "Idle"

\* The table as the set of its items.
DesiredItems == {GRBL_SETTINGS[i] : i \in DOMAIN GRBL_SETTINGS}

\* The bytes written are a Setting message.
IsSettingBytes(o) == o # None /\ Val(o)[1] = "$"

\* sync_settings goes on after the run() that asked for the settings
\* returned.
ComparesAfterGet == sync.pc = "get" /\ pc = "idle" /\ sync'.pc # "get"

\* C16: sync_settings called when the device already has the desired
\* settings (a second call with no change of the device in between) asks
\* for the settings, finds them equal to the table, returns success and
\* has written no Setting message.
C16_SyncIdempotent ==
    [][/\ (ComparesAfterGet /\ gc.curr_grbl_settings = DesiredItems)
            => /\ sync'.pc = "done"
               /\ sync'.result = "True"
               /\ sync'.writes = 0
               /\ pc' = "idle"
               /\ port_out' = None
       /\ (sync.pc = "get" /\ port_out' # None) => ~IsSettingBytes(port_out')
       /\ (sync.pc = "get" /\ gc.need_get_settings /\ ~gc.need_reset
             /\ ~gc.need_status /\ ~gc.need_unlock /\ port_out' # None)
            => IsCmdBytes(port_out', "GET_SETTINGS")]_vars

\* The second call in a row wrote GetSettings, found the settings up to
\* date and returned success without a Setting message.
C16_Witness ==
    /\ sync.calls = 2
    /\ sync.pc = "done"
    /\ sync.result = "True"
    /\ sync.writes = 0
    /\ sync.asked
    /\ gc.curr_grbl_settings = DesiredItems
    /\ gc.next_grbl_msg.msg_type = "EMPTY"

\* sync_settings leaves its loop over the table and asks for the settings
\* again.
LoopDone == sync.pc = "set" /\ pc = "idle" /\ sync'.pc = "reget"

\* C17: when the settings differ, sync_settings writes exactly one Setting
\* message per key of the table, one run() per key, before it asks for
\* the settings again.
C17_OneSettingPerKey ==
    [][LoopDone => sync.writes = Len(GRBL_SETTINGS)]_vars

\* C18: the write step of run() is the only writer to the port: every
\* command written is written by run() at the head of its loop, which
\* then awaits the response.
C18_OnlyRunWrites ==
    [][port_out' # None => (pc = "drain" /\ pc' = "await")]_vars

\* The reader thread has read a line in this step.
ReadsLine == dev_left' < dev_left

\* C19: the reader queues every line that is not empty once, at the tail
\* of the FIFO, drops the empty ones, and no line stops it: after every
\* line read the thread is still in its loop and the FIFO is as it was or
\* longer by the one line.
C19_ReaderDeliversEveryLine ==
    [][ReadsLine =>
         /\ reader_alive'
         /\ \/ data_queue' = data_queue
            \/ /\ Len(data_queue') = Len(data_queue) + 1
               /\ SubSeq(data_queue', 1, Len(data_queue)) = data_queue
               /\ data_queue'[Len(data_queue')].shape = "text"]_vars

\* C20: when the port cannot be opened during startup(), startup() ends
\* by returning failure: no exception escapes it.
C20_OpenFailureReturnsFailure ==
    (connected /\ ~port_open /\ Ended) => (pc = "idle" /\ success = "False")

\* check_move is called by this step on the pending move, whose radius
\* and angle are given so that the rounding at its head does not raise.
ChecksMove ==
    /\ Generates
    /\ state.phase = "ACT"
    /\ ~gc.need_reset /\ ~gc.need_status /\ ~gc.need_unlock
    /\ gc.need_send_next_move
    /\ state.next_move.r # None
    /\ state.next_move.t # None

\* The radius of the pending move and the radius last reported.
MoveR == Val(state.next_move.r)

PosR == state.grbl.mpos_r

\* The step refused the move, or wrote it.
Rejected == gen_rejected' /\ ~IsMoveBytes(port_out')

Accepted == ~gen_rejected' /\ IsMoveBytes(port_out')

\* C21: check_move rejects a move that goes on in the direction of a
\* tripped hard limit (hard_r_min and r < pos_r, hard_r_max and r > pos_r),
\* and accepts a move away from the tripped switch when nothing else speaks
\* against it: with hard_r_min and pos_r = 5, r = 3 is rejected and r = 8
\* is accepted.
C21_HardLimitDirection ==
    [][ChecksMove =>
         /\ (state.limits_hit.hard_r_min /\ MoveR < PosR) => Rejected
         /\ (state.limits_hit.hard_r_max /\ MoveR > PosR) => Rejected
         /\ (/\ state.limits_hit.hard_r_min /\ ~state.limits_hit.hard_r_max
             /\ MoveR > PosR
             /\ MoveR >= R_MIN /\ MoveR <= R_MAX
             /\ ~state.limits_hit.soft_r_max) => Accepted
         /\ (/\ state.limits_hit.hard_r_max /\ ~state.limits_hit.hard_r_min
             /\ MoveR < PosR
             /\ MoveR >= R_MIN /\ MoveR <= R_MAX
             /\ ~state.limits_hit.soft_r_min) => Accepted]_vars

\* With hard_r_min tripped at pos_r = 5 the move to r = 3 was refused.
C21_Witness ==
    /\ gen_rejected
    /\ state.limits_hit.hard_r_min /\ ~state.limits_hit.hard_r_max
    /\ ~state.limits_hit.soft_r_min /\ ~state.limits_hit.soft_r_max
    /\ state.grbl.mpos_r = 5
    /\ state.next_move.r = Some(3)
    /\ ~gc.need_send_next_move

\* C22 as stated: when not homing, check_move rejects every move further
\* into a tripped soft limit and every move whose radius is outside
\* [R_MIN, R_MAX].
C22_SoftLimitAndBounds ==
    [][(ChecksMove /\ ~state.flags.need_homing) =>
         /\ (state.limits_hit.soft_r_min /\ MoveR < PosR) => Rejected
         /\ (state.limits_hit.soft_r_max /\ MoveR > PosR) => Rejected
         /\ (MoveR < R_MIN \/ MoveR > R_MAX) => Rejected]_vars

\* C22: when not homing, check_move rejects every move further into a
\* tripped soft limit, and every move to a radius other than the reported
\* one that is outside [R_MIN, R_MAX].
C22_SoftLimitAndBoundsWhenMoving ==
    [][(ChecksMove /\ ~state.flags.need_homing) =>
         /\ (state.limits_hit.soft_r_min /\ MoveR < PosR) => Rejected
         /\ (state.limits_hit.soft_r_max /\ MoveR > PosR) => Rejected
         /\ ((MoveR < R_MIN \/ MoveR > R_MAX) /\ MoveR # PosR) => Rejected]_vars

\* Not homing, no limit tripped, and the move beyond the rim was refused.
C22_Witness ==
    /\ gen_rejected
    /\ ~state.flags.need_homing
    /\ state.limits_hit = LimitsHit(FALSE, FALSE, FALSE, FALSE)
    /\ state.grbl.mpos_r = 8
    /\ state.next_move.r = Some(300)

\* C23: a move with neither a wrapped nor an unwrapped angle is refused
\* by check_move as an invalid move, and no exception is raised.
C23_MissingAngleRejected ==
    [][(/\ Generates
        /\ state.phase = "ACT"
        /\ ~gc.need_reset /\ ~gc.need_status /\ ~gc.need_unlock
        /\ gc.need_send_next_move
        /\ state.next_move.r # None
        /\ state.next_move.t = None /\ state.next_move.t_grbl = None)
          => (gen_rejected' /\ pc' # "raised")]_vars

\* The message in flight when the step handles its line.
InFlight == gc.next_grbl_msg

\* C24: handling an Alarm line, whatever message is in flight, leaves
\* need_reset, need_unlock and need_status set and the device status Alarm.
C24_AlarmSetsRecovery ==
    [][(HandlesLine /\ HandledKind = "RESP_ALARM") =>
          /\ gc'.need_reset /\ gc'.need_unlock /\ gc'.need_status
          /\ state'.grbl.status = "Alarm"]_vars

\* An Alarm line was handled with a written, unanswered Move in flight.
C24_Witness ==
    /\ gc.last_grbl_resp = "RESP_ALARM"
    /\ gc.next_grbl_msg.msg_type = "MOVE" /\ gc.next_grbl_msg.sent
    /\ ~gc.next_grbl_msg.received
    /\ gc.need_reset /\ gc.need_unlock /\ gc.need_status
    /\ state.grbl.status = "Alarm"
    /\ data_queue = << >>

\* C25: handling an Ack while Unlock is in flight leaves need_unlock and
\* expecting_extra_msg false.
C25_AckOfUnlock ==
    [][(HandlesLine /\ HandledKind = "RESP_OK" /\ InFlight.msg = GrblCmd("UNLOCK")) =>
          (~gc'.need_unlock /\ ~gc'.expecting_extra_msg)]_vars

\* The Ack of a written Unlock was handled and the message marked received.
C25_Witness ==
    /\ gc.last_grbl_resp = "RESP_OK"
    /\ gc.next_grbl_msg.msg = GrblCmd("UNLOCK")
    /\ gc.next_grbl_msg.sent /\ gc.next_grbl_msg.received
    /\ ~gc.need_unlock /\ ~gc.expecting_extra_msg
    /\ data_queue = << >>

\* C26: handling an Error line sets need_reset, need_unlock and need_status
\* and leaves state.flags.run_control_loop, the flag the orchestration loop
\* tests, false.
C26_ErrorStopsLoop ==
    [][(HandlesLine /\ HandledKind = "RESP_ERROR") =>
          /\ gc'.need_reset /\ gc'.need_unlock /\ gc'.need_status
          /\ ~state'.flags.run_control_loop]_vars

\* The pending flags of the driver and of the State.
PendingFlags(g, st) ==
    <<g.need_reset, g.need_ping, g.need_status, g.need_unlock,
      g.need_send_setting, g.need_get_settings, g.need_send_next_move,
      st.flags.need_homing>>

\* The report carried by the line the step handles.
Reported == parse_grbl_status(Head(data_queue))

ClearedByGood(g) ==
    [move |-> g.need_send_next_move, unlock |-> g.need_unlock,
     reset |-> g.need_reset, setting |-> g.need_send_setting]

\* The intent that belongs to a message, if it has one.
IntentOf(m) ==
    IF m.msg_type = "MOVE" THEN {"move"}
    ELSE IF m.msg = GrblCmd("UNLOCK") THEN {"unlock"}
    ELSE IF m.msg = GrblCmd("SOFT_RESET") THEN {"reset"}
    ELSE IF m.msg_type = "SETTING" THEN {"setting"}
    ELSE {}

\* C28: when the line handled is a good response to the message in flight,
\* the message is marked received, the intent that belongs to the message
\* is cleared (and a Move is marked received), and the intents that belong
\* to the other kinds of message keep their values.
C28_GoodClearsOwnIntent ==
    [][(HandlesLine /\ isgood(HandledKind, InFlight) /\ pc' # "raised") =>
          /\ gc'.next_grbl_msg.received
          /\ InFlight.msg_type = "MOVE" => state'.next_move.received
          /\ \A k \in {"move", "unlock", "reset", "setting"} :
                ClearedByGood(gc')[k] =
                    IF k \in IntentOf(InFlight) THEN FALSE ELSE ClearedByGood(gc)[k]]_vars

\* The Ack of a written Move was handled while need_unlock, need_reset and
\* need_send_setting were pending: only need_send_next_move was cleared.
C28_Witness ==
    /\ gc.last_grbl_resp = "RESP_OK"
    /\ gc.next_grbl_msg.msg_type = "MOVE"
    /\ gc.next_grbl_msg.sent /\ gc.next_grbl_msg.received
    /\ state.next_move.received
    /\ ~gc.need_send_next_move
    /\ gc.need_unlock /\ gc.need_reset /\ gc.need_send_setting
    /\ data_queue = << >>

\* C29: when run() generates in Setup with need_homing set, homing enabled,
\* no reset, status, unlock or settings intent pending and no hard limit
\* tripped, the command written is Home.
C29_HomeWritten ==
    [][(/\ Generates
        /\ state.phase = "SETUP" /\ state.flags.need_homing /\ cfg.GRBL_HOMING_ON
        /\ ~gc.need_reset /\ ~gc.need_status /\ ~gc.need_unlock
        /\ ~gc.need_get_settings /\ ~gc.need_send_setting
        /\ ~state.limits_hit.hard_r_min /\ ~state.limits_hit.hard_r_max)
          => port_out' = Some(GrblCmd("HOME"))]_vars

\* A caller enters run().
RunStarts == pc = "idle" /\ pc' \in {"top", "drain"}

\* need_ping when the test at the head of run() is made: it was set
\* before, or the caller is the ping of the first serial_connect.
NeedPingAtStart == gc.need_ping \/ (~connected /\ connected')

\* The step calls hard_reset: the port is closed and opened again.
Reconnects == reconnect'.calls > reconnect.calls

\* C30: at the start of run() the disconnect and reconnect is performed
\* exactly when need_grbl_hard_reset is pending and need_ping is not set;
\* the flag is then clear, so that one reconnect is made for one request,
\* and the run() of the reconnect's ping makes no reconnect of its own.
C30_ReconnectOncePerRequest ==
    [][RunStarts =>
          /\ Reconnects <=> (state.flags.need_grbl_hard_reset /\ ~NeedPingAtStart)
          /\ Reconnects =>
                /\ ~state'.flags.need_grbl_hard_reset
                /\ reconnect'.calls = 1
                /\ reconnect'.frame /\ gc'.need_ping
                /\ port_open' /\ reader_alive' /\ data_queue' = << >>]_vars

\* The homing sequence asked for the reconnect, the run() of act() made
\* it, the run() of the reconnect's ping returned and then the run() of
\* act() returned.
C30_Witness ==
    /\ reconnect.calls = 1 /\ ~reconnect.frame
    /\ ~state.flags.need_grbl_hard_reset
    /\ state.phase = "ACT"
    /\ pc = "idle" /\ success = "True"

\* The step handles a settings line that parses.
HandlesSetting ==
    HandlesLine /\ HandledKind = "RESP_SETTING" /\ pc' # "raised"

\* C31: a settings line that is handled is stored in curr_grbl_settings,
\* need_get_settings is cleared and expecting_extra_msg set; only an Ack
\* clears expecting_extra_msg and no run() returns while it is set, so a
\* run() that took a settings line returns only after a later Ack; every
\* stored value stays until a line for the same key replaces it.
C31_SettingsStoredUntilAck ==
    [][/\ HandlesSetting =>
             /\ Val(Head(data_queue).setting) \in gc'.curr_grbl_settings
             /\ ~gc'.need_get_settings
             /\ gc'.expecting_extra_msg
       /\ (gc.expecting_extra_msg /\ ~gc'.expecting_extra_msg) =>
             (HandlesLine /\ HandledKind = "RESP_OK")
       /\ (Running /\ pc' = "idle") => ~gc'.expecting_extra_msg
       /\ \A kv \in gc.curr_grbl_settings :
             \/ kv \in gc'.curr_grbl_settings
             \/ HandlesSetting /\ Val(Head(data_queue).setting)[1] = kv[1]]_vars

\* The run() that asked for the settings took a settings line, then the
\* Ack, and returned with the value stored.
C31_Witness ==
    /\ sync.asked
    /\ gc.curr_grbl_settings # {}
    /\ gc.last_grbl_resp = "RESP_OK"
    /\ ~gc.expecting_extra_msg /\ ~gc.need_get_settings
    /\ pc = "idle" /\ success = "True"

\* need_ping is the only intent pending.
OnlyPingPending ==
    /\ gc.need_ping
    /\ ~gc.need_reset /\ ~gc.need_status /\ ~gc.need_unlock
    /\ ~gc.need_get_settings /\ ~gc.need_send_setting
    /\ ~gc.need_send_next_move /\ ~state.flags.need_homing

\* C32: when run() generates with only need_ping pending, the command it
\* writes is Ping, in every phase, so that the run cannot return success
\* without a Ping written and acknowledged.
C32_PingWritten ==
    [][(Generates /\ OnlyPingPending) =>
          (port_out' = Some(GrblCmd("PING")) /\ pc' = "await")]_vars

\* C33: within one run() of the Act phase the pending Move is written at
\* most once, whatever the device sends.
C33_MoveWrittenOncePerRun == (state.phase = "ACT") => moves_written <= 1

\* C34: a staged message that is not Empty is marked received only after
\* it was written to the port.
C34_ReceivedImpliesSent ==
    (gc.next_grbl_msg.msg_type # "EMPTY" /\ gc.next_grbl_msg.received)
        => gc.next_grbl_msg.sent

\* C35: next_move is marked received only by a step that handles an Ack
\* while a Move is the message in flight.
C35_OnlyAckReceivesMove ==
    [][(~state.next_move.received /\ state'.next_move.received) =>
          /\ HandlesLine
          /\ HandledKind = "RESP_OK"
          /\ InFlight.msg_type = "MOVE"]_vars

\* The step is the "return True" of run().
ReturnsSuccess == Running /\ pc' = "idle" /\ success' = "True"

\* C36: when run() returns success in Setup or Act, need_reset,
\* need_status, need_unlock and expecting_extra_msg are false; in Act
\* need_send_next_move is false too, in Setup need_get_settings.
C36_NothingPendingAtSuccess ==
    [][(ReturnsSuccess /\ state'.phase \in {"SETUP", "ACT"}) =>
          /\ ~gc'.need_reset /\ ~gc'.need_status /\ ~gc'.need_unlock
          /\ ~gc'.expecting_extra_msg
          /\ state'.phase = "ACT" => ~gc'.need_send_next_move
          /\ state'.phase = "SETUP" => ~gc'.need_get_settings]_vars

\* A run() of Act returned success after it had refused the pending move.
C36_Witness ==
    /\ pc = "idle" /\ success = "True"
    /\ state.phase = "ACT"
    /\ gen_rejected
    /\ ~gc.need_send_next_move

\* The step before wrote a Move that check_move had just accepted while
\* need_homing was false.
WroteCheckedMove ==
    IsMoveBytes(port_out) /\ ~gen_rejected /\ ~state.flags.need_homing

\* The radius of the Move the step before wrote.
WrittenR == Val(port_out)[2]

\* C37 as stated: every Move written while need_homing is false has a
\* radius within [R_MIN, R_MAX], whatever the last reported position.
C37_WrittenMoveInBounds ==
    WroteCheckedMove => (R_MIN <= WrittenR /\ WrittenR <= R_MAX)

\* C37: every Move written while need_homing is false has a radius within
\* [R_MIN, R_MAX] or keeps the radius of the last reported position.
C37_WrittenMoveInBoundsOrStill ==
    WroteCheckedMove =>
        \/ R_MIN <= WrittenR /\ WrittenR <= R_MAX
        \/ WrittenR = state.grbl.mpos_r

\* From a reported position beyond the rim a Move back inside the bounds
\* was written.
C37_Witness ==
    /\ WroteCheckedMove
    /\ state.grbl.mpos_r = 300
    /\ WrittenR = 8
    /\ pc = "await"

\* The step writes a command other than Home.
WritesOtherThanHome == port_out' # None /\ port_out' # Some(GrblCmd("HOME"))

NoStatusApplied == state.limits_hit = LimitsHit(TRUE, TRUE, TRUE, TRUE)

\* C39: as long as no status report has been applied, no Move whose radius
\* differs from the last known pos_r is written to the port.
C39_FailSafeStart ==
    (NoStatusApplied /\ IsMoveBytes(port_out)) => WrittenR = state.grbl.mpos_r

\* Before any status report the homing run() proposed its back-off Move
\* away from the centre, and check_move refused it.
C39_Witness ==
    /\ NoStatusApplied
    /\ gen_rejected
    /\ state.next_move.r = Some(state.grbl.mpos_r + HOMING_BACKOFF)
    /\ port_out = None

\* think has just set need_homing on a hard-limit trip: the limit flags
\* changed since iterate() and a hard one is up.
NeedHomingInLoop ==
    /\ state.phase = "THINK"
    /\ state.prev_limits_hit # state.limits_hit
    /\ state.limits_hit.hard_r_min \/ state.limits_hit.hard_r_max
    /\ state.flags.need_homing

\* The control loop keeps running: it comes to the head of its loop again
\* and again.
LoopKeepsRunning == []<>(state.phase = "ITERATE")

\* C40: in a control loop that keeps running, need_homing set in a loop
\* phase is eventually cleared again.
C40_NeedHomingCleared ==
    LoopKeepsRunning => (NeedHomingInLoop ~> ~state.flags.need_homing)
====
